---- MODULE Spec2Model ----
(***************************************************************************)
(* Model of the Orky ticket-to-pull-request orchestrator                   *)
(* (api/brain/jira_scanner.js, api/brain/forge.js,                         *)
(* api/brain/forge_to_pr.js).                                              *)
(*                                                                         *)
(* Text is a sequence of lexemes: one-character strings, plus the lexeme   *)
(* AC_HEADING that stands for the phrase "Acceptance Criteria" in any      *)
(* letter case (the regular expression that looks for it is                *)
(* case-insensitive).                                                      *)
(***************************************************************************)
EXTENDS Naturals, Sequences, FiniteSets, TLC

(***************************************************************************)
(* Bounds of the model.                                                    *)
(***************************************************************************)
MaxPasses == 2
MaxFaults == 2

(***************************************************************************)
(* Program constants.                                                      *)
(***************************************************************************)
STATUS_READY == "Ready for Engineering"
STATUS_IN_PROGRESS == "In Progress"
STATUS_IN_REVIEW == "In Review"
BLOCKING_LABELS == {"blocked", "needs-info", "do-not-automate", "security-review-required"}
REQUIRE_AUTOMATION_ALLOWED_LABEL == FALSE
AUTOMATION_ALLOWED_LABEL == "automation:allowed"
MinSummaryLength == 8
HeadingLineMax == 60
ShortIdHexLength == 8
DigestHexLength == 64
SearchMaxResults == 50

(***************************************************************************)
(* Lexemes.                                                                *)
(***************************************************************************)
SP == " "
TAB == "\t"
CR == "\r"
LF == "\n"
COLON == ":"
AC_HEADING == "Acceptance Criteria"
Letters == {"a", "b", "X"}
Blank == {SP, TAB}
Whitespace == {SP, TAB, CR, LF}

Drop(s, n) == SubSeq(s, n + 1, Len(s))

Range(s) == {s[i] : i \in 1..Len(s)}

RECURSIVE LeadingRun(_, _)
LeadingRun(s, S) ==
  IF s = <<>> \/ Head(s) \notin S THEN 0 ELSE 1 + LeadingRun(Tail(s), S)

RECURSIVE TrailingRun(_, _)
TrailingRun(s, S) ==
  IF s = <<>> \/ s[Len(s)] \notin S THEN 0
  ELSE 1 + TrailingRun(SubSeq(s, 1, Len(s) - 1), S)

RECURSIVE TextLength(_)
TextLength(s) == IF s = <<>> THEN 0 ELSE Len(Head(s)) + TextLength(Tail(s))

(* .replace(/\r\n/g, "\n") *)
RECURSIVE ReplaceCrLf(_)
ReplaceCrLf(s) ==
  IF s = <<>> THEN <<>>
  ELSE IF Len(s) >= 2 /\ s[1] = CR /\ s[2] = LF
       THEN <<LF>> \o ReplaceCrLf(Drop(s, 2))
       ELSE <<Head(s)>> \o ReplaceCrLf(Tail(s))

(* .replace(/[ \t]+/g, " ") *)
RECURSIVE CollapseBlanks(_)
CollapseBlanks(s) ==
  IF s = <<>> THEN <<>>
  ELSE IF Head(s) \in Blank
       THEN <<SP>> \o CollapseBlanks(Drop(s, LeadingRun(s, Blank)))
       ELSE <<Head(s)>> \o CollapseBlanks(Tail(s))

(* .replace(/\n{3,}/g, "\n\n") *)
RECURSIVE CollapseNewlines(_)
CollapseNewlines(s) ==
  IF s = <<>> THEN <<>>
  ELSE IF Head(s) = LF
       THEN LET n == LeadingRun(s, {LF})
            IN  (IF n >= 3 THEN <<LF, LF>> ELSE SubSeq(s, 1, n))
                  \o CollapseNewlines(Drop(s, n))
       ELSE <<Head(s)>> \o CollapseNewlines(Tail(s))

(* .trim() *)
Trim(s) ==
  LET a == LeadingRun(s, Whitespace)
      b == TrailingRun(s, Whitespace)
  IN  IF a = Len(s) THEN <<>> ELSE SubSeq(s, a + 1, Len(s) - b)

normalizeText(s) == Trim(CollapseNewlines(CollapseBlanks(ReplaceCrLf(s))))

(***************************************************************************)
(* sha256Hex is a collision-resistant digest: it is modelled as a value    *)
(* of DigestHexLength hex characters that determines, and is determined    *)
(* by, the string it was computed from.                                    *)
(***************************************************************************)
sha256Hex(s) == [hexLength |-> DigestHexLength, of |-> s]

HexSlice(d, n) == [hexLength |-> IF n < d.hexLength THEN n ELSE d.hexLength, of |-> d.of]

(* a payload that leaves the tracker's last-updated timestamp out *)
FingerprintPayloadWithoutUpdatedAt(in) ==
  <<"jiraKey=", in.jiraKey, LF, "status=", in.jiraStatus, LF, "ac=">>
    \o normalizeText(in.acceptanceCriteria) \o <<LF, "desc=">> \o normalizeText(in.description)

(* The labelled fields joined by "\n", as one string of lexemes. *)
FingerprintPayload(in) ==
  <<"jiraKey=", in.jiraKey, LF,
    "updatedAt=", in.jiraUpdatedAt, LF,
    "status=", in.jiraStatus, LF,
    "ac=">> \o normalizeText(in.acceptanceCriteria)
    \o <<LF, "desc=">> \o normalizeText(in.description)

buildFingerprint(in) ==
  LET full == sha256Hex(FingerprintPayload(in))
  IN  [full |-> full,
       short |-> [prefix |-> "fp_", hex |-> HexSlice(full, ShortIdHexLength)]]

(***************************************************************************)
(* State.                                                                  *)
(*   env      process.env, fixed for a behaviour                           *)
(*   jira     the tracker: issue key -> fields (status.name changes)       *)
(*   clock    the wall clock read by humanTimestamp                        *)
(*   pc       position of runJiraScanner: "idle", "loop", the awaited call *)
(*            site, "returned" or "threw"                                  *)
(*   jiraKey  the argument of the pass (NoKey in scan mode)                *)
(*   issues, idx, results, key, validation, fp, msg                        *)
(*            locals of runJiraScanner (idx: the loop's position)          *)
(*   pr       the value brainToHandsCreatePr returned                      *)
(*   pass     number of the current call of runJiraScanner                 *)
(*   calls    every call of an external collaborator so far, in order      *)
(*   faults   number of failing tracker responses so far                   *)
(*   app      one application of a function of the scanner or of           *)
(*            forgeProposal to arguments: its name, arguments and result   *)
(*   gh       one request to POST /api/github/pr: its body, the handler's  *)
(*            position and locals, the repository at GitHub, the response  *)
(*   db       the table orky_runs and the requests to the Control API      *)
(*            (POST /runs, /runs/:id/start, /runs/:id/cancel) in flight    *)
(*   intake   one request to POST /api/intake or POST /api/intake/batch:   *)
(*            its body, the handler's position, counters and report, and   *)
(*            the issues it asked Jira to create                           *)
(***************************************************************************)
VARIABLES env, jira, clock, pc, jiraKey, issues, idx, results, key,
          validation, fp, msg, pr, pass, calls, faults, app, gh, db, intake

scanner == <<env, jira, clock, pc, jiraKey, issues, idx, results, key,
             validation, fp, msg, pr, pass, calls, faults>>

vars == <<scanner, app, gh, db, intake>>

JIRA_AC_FIELD_ID == env.JIRA_ACCEPTANCE_CRITERIA_FIELD_ID
DEFAULT_TARGET_REPO ==
  IF env.DEFAULT_TARGET_REPO = "" THEN "ohh-web" ELSE env.DEFAULT_TARGET_REPO
TRANSITION_ID_TO_IN_PROGRESS == env.JIRA_TRANSITION_ID_TO_IN_PROGRESS
TRANSITION_ID_TO_IN_REVIEW == env.JIRA_TRANSITION_ID_TO_IN_REVIEW

(***************************************************************************)
(* A description is null, a string, or an Atlassian Document whose text    *)
(* nodes are joined by one space.                                          *)
(***************************************************************************)
RECURSIVE JoinChunks(_)
JoinChunks(chunks) ==
  IF chunks = <<>> THEN <<>>
  ELSE IF Len(chunks) = 1 THEN chunks[1]
       ELSE chunks[1] \o <<SP>> \o JoinChunks(Tail(chunks))

extractDescriptionText(fields) ==
  CASE fields.description.type = "string" -> fields.description.text
    [] fields.description.type = "adf" -> JoinChunks(fields.description.chunks)
    [] OTHER -> <<>>

(***************************************************************************)
(* desc.match(/Acceptance Criteria\s*:?\s*\n([\s\S]*?)(\n[A-Z][^\n]{0,60}\n|$)/i) *)
(***************************************************************************)
LastIndexOf(d, lo, hi, c) ==
  LET S == {p \in lo..hi : d[p] = c}
  IN  IF S = {} THEN 0 ELSE CHOOSE p \in S : \A q \in S : q <= p

(* Where group 1 starts when the heading at position i matches up to its *)
(* "\n"; 0 when it does not.                                             *)
HeadingGroupStart(d, i) ==
  LET q == i + 1 + LeadingRun(Drop(d, i), Whitespace)
      afterColon ==
        IF q <= Len(d) /\ d[q] = COLON
        THEN LastIndexOf(d, q + 1, q + LeadingRun(Drop(d, q), Whitespace), LF)
        ELSE 0
      beforeColon == LastIndexOf(d, i + 1, q - 1, LF)
  IN  IF afterColon # 0 THEN afterColon + 1
      ELSE IF beforeColon # 0 THEN beforeColon + 1
      ELSE 0

(* \n[A-Z][^\n]{0,60}\n at position e (the flag i makes [A-Z] any letter) *)
HeadingLineAt(d, e) ==
  /\ e + 2 <= Len(d)
  /\ d[e] = LF
  /\ d[e + 1] \in Letters \cup {AC_HEADING}
  /\ LET rest == Drop(d, e + 1)
         n == LeadingRun(rest, Range(rest) \ {LF})
     IN  /\ n < Len(rest)
         /\ Len(d[e + 1]) - 1 + TextLength(SubSeq(rest, 1, n)) <= HeadingLineMax

GroupEnd(d, g) ==
  CHOOSE e \in g..(Len(d) + 1) :
    /\ e = Len(d) + 1 \/ HeadingLineAt(d, e)
    /\ \A f \in g..(e - 1) : ~HeadingLineAt(d, f)

(* m[1] of the leftmost match, <<>> when there is none *)
MatchAcceptanceCriteria(d) ==
  LET S == {i \in 1..Len(d) : d[i] = AC_HEADING /\ HeadingGroupStart(d, i) # 0}
  IN  IF S = {} THEN <<>>
      ELSE LET i == CHOOSE p \in S : \A q \in S : p <= q
               g == HeadingGroupStart(d, i)
           IN  SubSeq(d, g, GroupEnd(d, g) - 1)

extractAcceptanceCriteria(fields) ==
  IF JIRA_AC_FIELD_ID # "" /\ fields.acField # <<>>
  THEN normalizeText(fields.acField)
  ELSE normalizeText(MatchAcceptanceCriteria(normalizeText(extractDescriptionText(fields))))

(***************************************************************************)
(* String(x).toLowerCase() on the labels that occur.                       *)
(***************************************************************************)
LabelNames == {"blocked", "Blocked", "needs-info", "ui"}
(* a comparison of labels that keeps their case *)
KeepCase(l) == l

toLowerCase(l) == IF l = "Blocked" THEN "blocked" ELSE l

RECURSIVE MapLower(_)
MapLower(ls) == IF ls = <<>> THEN <<>> ELSE <<toLowerCase(Head(ls))>> \o MapLower(Tail(ls))

(* the elements of new Set(labels), in insertion order *)
RECURSIVE SetOrder(_, _)
SetOrder(ls, seen) ==
  IF ls = <<>> THEN <<>>
  ELSE IF Head(ls) \in seen THEN SetOrder(Tail(ls), seen)
       ELSE <<Head(ls)>> \o SetOrder(Tail(ls), seen \cup {Head(ls)})

RECURSIVE LabelBlockers(_)
LabelBlockers(ls) ==
  IF ls = <<>> THEN <<>>
  ELSE (IF Head(ls) \in BLOCKING_LABELS THEN <<"Blocking label: " \o Head(ls)>> ELSE <<>>)
         \o LabelBlockers(Tail(ls))

(* a validation that stops at the first rule a ticket violates *)
FirstBlockerOnly(statusName, summary, description, acceptanceCriteria, labelSet, targetRepo) ==
  IF statusName # STATUS_READY
  THEN <<"Status is \"" \o statusName \o "\" not \"" \o STATUS_READY \o "\"">>
  ELSE IF summary = <<>> \/ TextLength(summary) < MinSummaryLength
  THEN <<"Missing or too-short Summary">>
  ELSE IF description = <<>> THEN <<"Missing Description">>
  ELSE IF acceptanceCriteria = <<>> THEN <<"Missing Acceptance Criteria">>
  ELSE IF LabelBlockers(labelSet) # <<>> THEN <<Head(LabelBlockers(labelSet))>>
  ELSE IF targetRepo = "" THEN <<"Missing target repo (DEFAULT_TARGET_REPO)">>
  ELSE <<>>

(* a validation without the re-check of the ticket's status *)
BlockersIgnoringStatus(statusName, summary, description, acceptanceCriteria, labelSet, targetRepo) ==
  (IF summary = <<>> \/ TextLength(summary) < MinSummaryLength
   THEN <<"Missing or too-short Summary">> ELSE <<>>)
  \o (IF description = <<>> THEN <<"Missing Description">> ELSE <<>>)
  \o (IF acceptanceCriteria = <<>> THEN <<"Missing Acceptance Criteria">> ELSE <<>>)
  \o LabelBlockers(labelSet)
  \o (IF REQUIRE_AUTOMATION_ALLOWED_LABEL /\ AUTOMATION_ALLOWED_LABEL \notin Range(labelSet)
      THEN <<"Missing required label: " \o AUTOMATION_ALLOWED_LABEL>> ELSE <<>>)
  \o (IF targetRepo = "" THEN <<"Missing target repo (DEFAULT_TARGET_REPO)">> ELSE <<>>)

(* const blockers = []; one blockers.push per violated rule, in this order *)
Blockers(statusName, summary, description, acceptanceCriteria, labelSet, targetRepo) ==
  (IF statusName # STATUS_READY
   THEN <<"Status is \"" \o statusName \o "\" not \"" \o STATUS_READY \o "\"">>
   ELSE <<>>)
  \o (IF summary = <<>> \/ TextLength(summary) < MinSummaryLength
      THEN <<"Missing or too-short Summary">> ELSE <<>>)
  \o (IF description = <<>> THEN <<"Missing Description">> ELSE <<>>)
  \o (IF acceptanceCriteria = <<>> THEN <<"Missing Acceptance Criteria">> ELSE <<>>)
  \o LabelBlockers(labelSet)
  \o (IF REQUIRE_AUTOMATION_ALLOWED_LABEL /\ AUTOMATION_ALLOWED_LABEL \notin Range(labelSet)
      THEN <<"Missing required label: " \o AUTOMATION_ALLOWED_LABEL>> ELSE <<>>)
  \o (IF targetRepo = "" THEN <<"Missing target repo (DEFAULT_TARGET_REPO)">> ELSE <<>>)

validateHardRules(issue) ==
  LET fields == issue.fields
      statusName == fields.status
      summary == normalizeText(fields.summary)
      labels == MapLower(fields.labels)
      labelSet == SetOrder(labels, {})
      description == normalizeText(extractDescriptionText(fields))
      acceptanceCriteria == normalizeText(extractAcceptanceCriteria(fields))
      targetRepo == DEFAULT_TARGET_REPO
      blockers ==
        Blockers(statusName, summary, description, acceptanceCriteria, labelSet, targetRepo)
  IN  [ok |-> blockers = <<>>,
       blockers |-> blockers,
       extracted |-> [jiraKey |-> issue.key,
                      jiraStatus |-> statusName,
                      jiraUpdatedAt |-> fields.updated,
                      summary |-> summary,
                      labels |-> labels,
                      description |-> description,
                      acceptanceCriteria |-> acceptanceCriteria,
                      targetRepo |-> targetRepo]]

(***************************************************************************)
(* The tracker's content and the process environment a behaviour starts    *)
(* from.                                                                   *)
(***************************************************************************)
Keys == {"ORKY-10", "ORKY-11"}
NoKey == ""

NullDescription == [type |-> "null", text |-> <<>>, chunks |-> <<>>]
StringDescription(t) == [type |-> "string", text |-> t, chunks |-> <<>>]
AdfDescription(c) == [type |-> "adf", text |-> <<>>, chunks |-> c]

GoodSummary == <<"a", "b", TAB, SP, "a", "b", "a", "b", "a">>
ShortSummary == <<SP, "a", "b", "a", "b", "a", "b", "a", SP>>
StoryWithCriteria == <<"a", SP, "b", CR, LF, AC_HEADING, COLON, LF, "b", SP, SP, "a", LF>>
StoryWithoutCriteria == <<"a", SP, "b">>

Catalogue ==
  { [status |-> STATUS_READY, summary |-> GoodSummary, labels |-> <<>>,
     description |-> StringDescription(StoryWithCriteria), acField |-> <<>>],
    [status |-> STATUS_READY, summary |-> ShortSummary, labels |-> <<>>,
     description |-> NullDescription, acField |-> <<>>],
    [status |-> STATUS_READY, summary |-> GoodSummary, labels |-> <<"ui", "Blocked">>,
     description |-> StringDescription(StoryWithoutCriteria), acField |-> <<>>],
    [status |-> STATUS_IN_REVIEW, summary |-> GoodSummary, labels |-> <<>>,
     description |-> StringDescription(StoryWithCriteria), acField |-> <<>>],
    [status |-> STATUS_READY, summary |-> GoodSummary, labels |-> <<"ui">>,
     description |-> AdfDescription(<< <<"a">>, <<AC_HEADING, COLON>>, <<"b">> >>),
     acField |-> <<"b", LF, LF, LF, "a">>] }

BaseEnv ==
  [ORKY_API_KEY |-> "secret",
   PUBLIC_BASE_URL |-> "https://orky.example",
   JIRA_PROJECT_KEY |-> "ORKY",
   DEFAULT_TARGET_REPO |-> "",
   JIRA_ACCEPTANCE_CRITERIA_FIELD_ID |-> "",
   JIRA_TRANSITION_ID_TO_IN_PROGRESS |-> "21",
   JIRA_TRANSITION_ID_TO_IN_REVIEW |-> "31"]

EnvConfigs ==
  { BaseEnv,
    [BaseEnv EXCEPT !.JIRA_ACCEPTANCE_CRITERIA_FIELD_ID = "customfield_10042"],
    [BaseEnv EXCEPT !.JIRA_TRANSITION_ID_TO_IN_REVIEW = ""],
    [BaseEnv EXCEPT !.JIRA_TRANSITION_ID_TO_IN_PROGRESS = ""],
    [BaseEnv EXCEPT !.ORKY_API_KEY = ""] }

InitialUpdated(k) == IF k = "ORKY-10" THEN 1 ELSE 2

(* The tracker's workflow: the status a transition id leads to. *)
WorkflowTarget(id) == IF id = "21" THEN STATUS_IN_PROGRESS ELSE STATUS_IN_REVIEW

(* issues of the project in status Ready, ORDER BY updated DESC, maxResults 50 *)
RECURSIVE OrderByUpdatedDesc(_)
OrderByUpdatedDesc(S) ==
  IF S = {} THEN <<>>
  ELSE LET k == CHOOSE x \in S : \A y \in S : jira[y].updated <= jira[x].updated
       IN  <<k>> \o OrderByUpdatedDesc(S \ {k})

IssueJson(k) == [key |-> k, fields |-> jira[k]]

jiraSearchReadyIssues ==
  LET found == OrderByUpdatedDesc({k \in Keys : jira[k].status = STATUS_READY})
      page == SubSeq(found, 1, IF Len(found) < SearchMaxResults THEN Len(found) ELSE SearchMaxResults)
  IN  [i \in 1..Len(page) |-> IssueJson(page[i])]

(***************************************************************************)
(* Results of a call: it returns a value or throws an Error.               *)
(***************************************************************************)
Return(v) == [threw |-> FALSE, error |-> "", value |-> v]
Throw(e) == [threw |-> TRUE, error |-> e, value |-> <<>>]

NoFingerprintShort == [prefix |-> "", hex |-> [hexLength |-> 0, of |-> <<>>]]
NoFingerprint == [full |-> [hexLength |-> 0, of |-> <<>>], short |-> NoFingerprintShort]
NoValidation == [ok |-> FALSE, blockers |-> <<>>]
NoPr == [ok |-> FALSE, prUrl |-> ""]
NoComment == [text |-> "", fingerprint |-> NoFingerprintShort]

(* blockers.join("; ") *)
RECURSIVE Join(_, _)
Join(ss, sep) ==
  IF ss = <<>> THEN ""
  ELSE IF Len(ss) = 1 THEN ss[1]
       ELSE ss[1] \o sep \o Join(Tail(ss), sep)

(***************************************************************************)
(* The Proposal Generator, forgeProposal({ instruction, contextSources,   *)
(* repo }), and what the model behind it may answer.                      *)
(***************************************************************************)
GoodProposal ==
  [kind |-> "github_pr", summary |-> "s",
   payload |-> [repo |-> "ohh-web", prTitle |-> "t", prBody |-> "b",
                commitMessage |-> "m", branchName |-> "", files |-> <<[path |-> "p", content |-> "c"]>>],
   quality |-> [assumptions |-> <<>>, risks |-> <<>>, testPlan |-> <<"t">>, rollbackPlan |-> <<>>]]

LlmResponses ==
  { [type |-> "json", json |-> GoodProposal],
    [type |-> "json", json |-> [kind |-> "note", summary |-> "s"]],
    [type |-> "json", json |-> [GoodProposal EXCEPT !.payload.files = <<>>]],
    [type |-> "json", json |-> [GoodProposal EXCEPT !.payload.repo = ""]],
    [type |-> "empty", json |-> <<>>],
    [type |-> "text", json |-> <<>>] }

(* instruction && typeof instruction === "string" *)
HasInstruction(input) == "instruction" \in DOMAIN input /\ input.instruction # ""

forgeProposal(input, llm) ==
  IF ~HasInstruction(input)
  THEN Throw("forgeProposal: instruction (string) is required")
  ELSE CASE llm.type = "empty" -> Throw("OpenAI response missing output_text")
         [] llm.type = "text" -> Throw("OpenAI returned non-JSON output")
         [] OTHER -> Return(llm.json)

(***************************************************************************)
(* The Repository Mutator's client, brainToHandsCreatePr, and what         *)
(* POST /api/github/pr may answer.                                         *)
(***************************************************************************)
PrResponses ==
  { [status |-> 200, isJson |-> TRUE, ok |-> TRUE, prUrl |-> "https://github.com/o/ohh-web/pull/7"],
    [status |-> 200, isJson |-> TRUE, ok |-> TRUE, prUrl |-> ""],
    [status |-> 500, isJson |-> TRUE, ok |-> FALSE, prUrl |-> ""],
    [status |-> 502, isJson |-> FALSE, ok |-> FALSE, prUrl |-> ""] }

(* the request is sent when no argument check throws *)
HasPrArguments(args) ==
  /\ args.baseUrl # ""
  /\ args.apiKey # ""
  /\ args.repo # ""
  /\ args.prTitle # <<>>
  /\ args.files # <<>>

brainToHandsCreatePr(args, resp) ==
  CASE args.baseUrl = "" -> Throw("brainToHandsCreatePr missing baseUrl")
    [] args.apiKey = "" -> Throw("brainToHandsCreatePr missing apiKey")
    [] args.repo = "" -> Throw("brainToHandsCreatePr missing repo")
    [] args.prTitle = <<>> -> Throw("brainToHandsCreatePr missing prTitle")
    [] args.files = <<>> -> Throw("brainToHandsCreatePr missing files[]")
    [] ~resp.isJson ->
         Throw("GitHub PR endpoint returned non-JSON (status " \o ToString(resp.status) \o ")")
    [] resp.status \notin 200..299 \/ ~resp.ok ->
         Throw("GitHub PR creation failed (status " \o ToString(resp.status) \o ")")
    [] OTHER -> Return([ok |-> TRUE, prUrl |-> resp.prUrl])

(***************************************************************************)
(* runJiraScanner: the call sites it awaits, and what it does when the     *)
(* awaited call settles.                                                   *)
(***************************************************************************)
TransitionSites == {"blocked_transition", "pickup_transition", "success_transition", "comp_transition"}
CommentSites == {"blocked_comment", "pickup_comment", "success_comment", "comp_comment"}
CompensationSites == {"comp_transition", "comp_comment"}

(* a scanner that asks for the proposal without picking the ticket up *)
FirstSiteSkippingPickUp(v) == IF ~v.ok THEN "blocked_transition" ELSE "forge"

(* a scanner that picks every ticket up, whatever validateHardRules said *)
FirstSiteIgnoringValidation(v) == "pickup_transition"

(* the site of the first await after validateHardRules *)
FirstSite(v) == IF ~v.ok THEN "blocked_transition" ELSE "pickup_transition"

(* the site of the next await when the call at `site` returned *)
NextSite(site) ==
  CASE site = "blocked_transition" -> "blocked_comment"
    [] site = "pickup_transition" -> "pickup_comment"
    [] site = "pickup_comment" -> "forge"
    [] site = "forge" -> "success_transition"
    [] site = "success_transition" -> "success_comment"
    [] site = "comp_transition" -> "comp_comment"
    [] OTHER -> "loop"

(* a scanner whose compensation passes the id of the pick-up transition *)
TransitionIdCompensatingToInProgress(site) ==
  IF site \in {"pickup_transition", "comp_transition"} THEN TRANSITION_ID_TO_IN_PROGRESS
  ELSE TRANSITION_ID_TO_IN_REVIEW

(* the transition id passed to jiraTransition at each site *)
TransitionIdAt(site) ==
  IF site = "pickup_transition" THEN TRANSITION_ID_TO_IN_PROGRESS
  ELSE TRANSITION_ID_TO_IN_REVIEW

StatusTransitioned ==
  "Status transitioned from " \o STATUS_READY \o " to " \o STATUS_IN_REVIEW \o " because - "

(* the text passed to jiraAddComment at each site *)
CommentAt(site) ==
  CASE site = "blocked_comment" ->
         [text |-> StatusTransitioned \o Join(validation.blockers, "; "),
          fingerprint |-> NoFingerprintShort]
    [] site = "pickup_comment" ->
         [text |-> "Orky picked up work at " \o ToString(results.runTimestamp) \o " | fingerprint ",
          fingerprint |-> fp.short]
    [] site = "success_comment" ->
         [text |-> "PR opened: " \o pr.prUrl \o " | fingerprint ", fingerprint |-> fp.short]
    [] OTHER ->
         [text |-> StatusTransitioned \o "Scanner execution failed: " \o msg,
          fingerprint |-> NoFingerprintShort]

(* a scanner that reports the blockers of a ticket as its failure *)
SkippedItemAsFailure ==
  [jiraKey |-> key, outcome |-> "failed", error |-> Join(validation.blockers, "; ")]

SkippedItem ==
  [jiraKey |-> key, outcome |-> "validation_failed_moved_to_in_review",
   reason |-> Join(validation.blockers, "; ")]

ProcessedItem ==
  [jiraKey |-> key, outcome |-> "pr_created_moved_to_in_review", prUrl |-> pr.prUrl,
   fingerprintShort |-> fp.short, repo |-> validation.extracted.targetRepo]

(* a scanner whose inner catch overwrites msg with the secondary failure *)
SecondaryError(original, err) == IF err = "" THEN original ELSE err

(* The error recorded for a failed ticket: err is what the compensation *)
(* threw ("" when it did not); the inner catch ignores it.              *)
RecordedError(original, err) == original

FailedItem(err) == [jiraKey |-> key, outcome |-> "failed", error |-> RecordedError(msg, err)]

(* a scanner that pushes the entry of a skipped ticket without counting it *)
PushWithoutCounting(item, counter) ==
  [results EXCEPT !.items = Append(@, item),
                  !.processed = IF counter = "processed" THEN @ + 1 ELSE @]

(* results after the ticket's entry is pushed *)
Push(item, counter) ==
  [results EXCEPT !.items = Append(@, item),
                  !.processed = IF counter = "processed" THEN @ + 1 ELSE @,
                  !.skipped = IF counter = "skipped" THEN @ + 1 ELSE @]

(* a scanner whose catch block records the failure and compensates nothing *)
CatchWithoutCompensation(r) ==
  /\ results' = [results EXCEPT !.failed = @ + 1,
                                !.items = Append(@, [jiraKey |-> key, outcome |-> "failed",
                                                     error |-> r.error])]
  /\ msg' = r.error
  /\ pc' = "loop"
  /\ idx' = idx + 1

(* catch (err): results.failed += 1, msg = String(err.message), then the *)
(* compensating transition                                              *)
CatchPrimary(r) ==
  /\ results' = [results EXCEPT !.failed = @ + 1]
  /\ msg' = r.error
  /\ pc' = "comp_transition"
  /\ idx' = idx

(* the ticket's entry is pushed and the loop goes on *)
Finish(item, counter) ==
  /\ results' = Push(item, counter)
  /\ pc' = "loop"
  /\ idx' = idx + 1
  /\ msg' = msg

(* a scanner without the inner try/catch: the secondary failure ends the pass *)
PropagateSecondary(r) ==
  /\ pc' = "threw"
  /\ UNCHANGED <<results, msg, idx>>

(* catch { ignore secondary failure }, then results.items.push *)
IgnoreSecondary(r) == Finish(FailedItem(r.error), "none")

(* runJiraScanner from the moment the call at `site` settled to its next await *)
Resume(site, r) ==
  CASE r.threw /\ site \notin CompensationSites -> CatchPrimary(r)
    [] r.threw /\ site \in CompensationSites -> IgnoreSecondary(r)
    [] ~r.threw /\ site = "blocked_comment" -> Finish(SkippedItem, "skipped")
    [] ~r.threw /\ site = "success_comment" -> Finish(ProcessedItem, "processed")
    [] ~r.threw /\ site = "comp_comment" -> Finish(FailedItem(""), "none")
    [] OTHER ->
         /\ pc' = NextSite(site)
         /\ UNCHANGED <<results, msg, idx>>

NoAnswers == [llm |-> "", github |-> ""]

(* what the model answered with: a proposal as the schema wants it, a  *)
(* proposal of another kind, without files or without repo, or no JSON *)
LlmAnswer(llm) ==
  IF llm.type # "json" THEN "none"
  ELSE IF /\ llm.json.kind = "github_pr"
          /\ "payload" \in DOMAIN llm.json
          /\ llm.json.payload.files # <<>>
          /\ llm.json.payload.repo # ""
       THEN "proposal"
       ELSE "malformed"

(* what POST /api/github/pr answered with: a pull request url, ok without *)
(* a url, or an error                                                     *)
PrAnswer(resp) ==
  IF resp.isJson /\ resp.ok THEN (IF resp.prUrl # "" THEN "url" ELSE "no_url") ELSE "error"

(* One call of an external collaborator: who was called from where, with  *)
(* what, how it ended ("ok", "failed", or "not_sent" when the call threw  *)
(* before any request left), the Error it threw, and the fingerprint the  *)
(* scanner held.  answers: for the proposal step, what the model was      *)
(* ready to answer with and, for a proposal fit to be sent on, what       *)
(* POST /api/github/pr was ready to answer with.                          *)
Call(name, site, arg, comment, result, error, answers) ==
  [pass |-> pass, key |-> key, call |-> name, site |-> site, arg |-> arg,
   comment |-> comment, result |-> result, error |-> error,
   fingerprint |-> fp.full, answers |-> answers]

MissingTransitionId ==
  "Missing transition id for Jira transition. Set env vars: "
    \o "JIRA_TRANSITION_ID_TO_IN_PROGRESS and JIRA_TRANSITION_ID_TO_IN_REVIEW."

JiraFailed(method, path, status) ==
  "Jira " \o method \o " " \o path \o " failed " \o ToString(status) \o ": "

(* one failing answer of the tracker is modelled *)
JiraErrorStatus == 400

(***************************************************************************)
(* Actions.                                                                *)
(***************************************************************************)
(* no application of a function, no request to POST /api/github/pr *)
NoApp == [fn |-> "", args |-> <<>>, result |-> <<>>]
NoGh == [pc |-> ""]
NoDb == [runs |-> <<>>]
NoIntake == [pc |-> ""]

(* runJiraScanner has not been called *)
NotStarted ==
  /\ clock = 2
  /\ pc = "idle"
  /\ jiraKey = NoKey
  /\ issues = <<>>
  /\ idx = 1
  /\ results = [runTimestamp |-> 0, mode |-> "", scanned |-> 0, processed |-> 0,
                skipped |-> 0, failed |-> 0, items |-> <<>>]
  /\ key = NoKey
  /\ validation = NoValidation
  /\ fp = NoFingerprint
  /\ msg = ""
  /\ pr = NoPr
  /\ pass = 0
  /\ calls = <<>>
  /\ faults = 0

Init ==
  /\ env \in EnvConfigs
  /\ \E f \in [Keys -> Catalogue] :
       jira = [k \in Keys |->
                 [status |-> f[k].status, summary |-> f[k].summary, labels |-> f[k].labels,
                  description |-> f[k].description, acField |-> f[k].acField,
                  updated |-> InitialUpdated(k)]]
  /\ NotStarted
  /\ app = NoApp
  /\ gh = NoGh
  /\ db = NoDb
  /\ intake = NoIntake

(* runJiraScanner({ jiraKey: k }) up to the first iteration of its loop *)
StartPass(k) ==
  /\ pc \in {"idle", "returned", "threw"}
  /\ pass < MaxPasses
  /\ pass' = pass + 1
  /\ jiraKey' = k
  /\ clock' = clock + 1
  /\ key' = NoKey
  /\ validation' = NoValidation
  /\ fp' = NoFingerprint
  /\ msg' = ""
  /\ pr' = NoPr
  /\ idx' = 1
  /\ \E httpOk \in BOOLEAN :
       /\ httpOk \/ faults < MaxFaults
       /\ LET fetched == IF k # NoKey THEN <<IssueJson(k)>> ELSE jiraSearchReadyIssues
              started == env.ORKY_API_KEY # "" /\ (k # NoKey \/ env.JIRA_PROJECT_KEY # "") /\ httpOk
          IN  /\ pc' = IF started THEN "loop" ELSE "threw"
              /\ issues' = IF started THEN fetched ELSE <<>>
              /\ results' = [runTimestamp |-> clock',
                             mode |-> IF k # NoKey THEN "single_issue" ELSE "scan_ready_status",
                             scanned |-> IF started THEN Len(fetched) ELSE 0,
                             processed |-> 0, skipped |-> 0, failed |-> 0, items |-> <<>>]
              /\ faults' = IF httpOk \/ env.ORKY_API_KEY = "" THEN faults ELSE faults + 1
  /\ UNCHANGED <<env, jira, calls, app, gh, db, intake>>

(* the top of the loop: return, or validate the next issue up to its first await *)
NextIssue ==
  /\ pc = "loop"
  /\ IF idx > Len(issues)
     THEN /\ pc' = "returned"
          /\ UNCHANGED <<key, validation, fp>>
     ELSE LET issue == issues[idx]
              v == validateHardRules(issue)
          IN  /\ key' = issue.key
              /\ validation' = v
              /\ fp' = IF v.ok
                       THEN buildFingerprint([jiraKey |-> issue.key,
                                              jiraUpdatedAt |-> v.extracted.jiraUpdatedAt,
                                              jiraStatus |-> v.extracted.jiraStatus,
                                              acceptanceCriteria |-> v.extracted.acceptanceCriteria,
                                              description |-> v.extracted.description])
                       ELSE NoFingerprint
              /\ pc' = FirstSite(v)
  /\ msg' = ""
  /\ pr' = NoPr
  /\ UNCHANGED <<env, jira, clock, jiraKey, issues, idx, results, pass, calls, faults, app, gh, db, intake>>

(* await jiraTransition(key, id) settles *)
JiraTransition ==
  /\ pc \in TransitionSites
  /\ LET id == TransitionIdAt(pc)
         path == "/rest/api/3/issue/" \o key \o "/transitions"
     IN  IF id = ""
         THEN /\ Resume(pc, Throw(MissingTransitionId))
              /\ calls' = Append(calls, Call("jiraTransition", pc, id, NoComment, "not_sent",
                                             MissingTransitionId, NoAnswers))
              /\ UNCHANGED <<jira, clock, faults>>
         ELSE \E httpOk \in BOOLEAN :
                /\ httpOk \/ faults < MaxFaults
                /\ Resume(pc, IF httpOk THEN Return(<<>>)
                              ELSE Throw(JiraFailed("POST", path, JiraErrorStatus)))
                /\ calls' = Append(calls,
                     Call("jiraTransition", pc, id, NoComment,
                          IF httpOk THEN "ok" ELSE "failed",
                          IF httpOk THEN "" ELSE JiraFailed("POST", path, JiraErrorStatus),
                          NoAnswers))
                /\ clock' = IF httpOk THEN clock + 1 ELSE clock
                /\ jira' = IF httpOk
                           THEN [jira EXCEPT ![key].status = WorkflowTarget(id),
                                             ![key].updated = clock + 1]
                           ELSE jira
                /\ faults' = IF httpOk THEN faults ELSE faults + 1
  /\ UNCHANGED <<env, jiraKey, issues, key, validation, fp, pr, pass, app, gh, db, intake>>

(* await jiraAddComment(key, text) settles *)
JiraAddComment ==
  /\ pc \in CommentSites
  /\ LET path == "/rest/api/3/issue/" \o key \o "/comment"
     IN  \E httpOk \in BOOLEAN :
           /\ httpOk \/ faults < MaxFaults
           /\ Resume(pc, IF httpOk THEN Return(<<>>)
                         ELSE Throw(JiraFailed("POST", path, JiraErrorStatus)))
           /\ calls' = Append(calls,
                Call("jiraAddComment", pc, "", CommentAt(pc),
                     IF httpOk THEN "ok" ELSE "failed",
                     IF httpOk THEN "" ELSE JiraFailed("POST", path, JiraErrorStatus),
                     NoAnswers))
           /\ clock' = IF httpOk THEN clock + 1 ELSE clock
           /\ jira' = IF httpOk THEN [jira EXCEPT ![key].updated = clock + 1] ELSE jira
           /\ faults' = IF httpOk THEN faults ELSE faults + 1
  /\ UNCHANGED <<env, jiraKey, issues, key, validation, fp, pr, pass, app, gh, db, intake>>

(* the object runJiraScanner passes to forgeProposal *)
ForgeInput ==
  [jiraKey |-> key,
   runTimestamp |-> results.runTimestamp,
   fingerprint |-> fp.full,
   fingerprintShort |-> fp.short,
   story |-> [summary |-> validation.extracted.summary,
              description |-> validation.extracted.description,
              acceptanceCriteria |-> validation.extracted.acceptanceCriteria,
              labels |-> validation.extracted.labels,
              jiraUpdatedAt |-> validation.extracted.jiraUpdatedAt],
   target |-> [repo |-> validation.extracted.targetRepo]]

(* proposal?.proposal ? proposal.proposal : proposal *)
NormalizedProposal(proposal) ==
  IF "proposal" \in DOMAIN proposal THEN proposal.proposal ELSE proposal

IsGithubPrProposal(p) == p.kind = "github_pr" /\ "payload" \in DOMAIN p

(* the object runJiraScanner passes to brainToHandsCreatePr *)
PrArguments(payload) ==
  [baseUrl |-> env.PUBLIC_BASE_URL,
   apiKey |-> env.ORKY_API_KEY,
   repo |-> validation.extracted.targetRepo,
   branchName |-> IF payload.branchName # "" THEN <<payload.branchName>>
                  ELSE <<key, "/", ToString(results.runTimestamp)>>,
   prTitle |-> IF payload.prTitle # "" THEN <<payload.prTitle>>
               ELSE <<key, ": ">> \o validation.extracted.summary,
   prBody |-> [text |-> payload.prBody, jira |-> key, fingerprint |-> fp.full,
               fingerprintShort |-> fp.short],
   commitMessage |-> IF payload.commitMessage # "" THEN payload.commitMessage
                     ELSE "Orky: " \o key,
   files |-> payload.files,
   labels |-> <<"created-by-orky">>]

(* await forgeProposal(forgeInput), the proposal check, await               *)
(* brainToHandsCreatePr(...) and the prUrl check: the step from the pick-up *)
(* comment to the catch block or to the transition that follows the pull    *)
(* request.  The two calls are logged in the order they are made.           *)
ForgeThenCreatePr ==
  /\ pc = "forge"
  /\ \E llm \in LlmResponses, resp \in PrResponses :
       LET forged == forgeProposal(ForgeInput, llm)
           proposal == NormalizedProposal(forged.value)
           args == PrArguments(proposal.payload)
           created == brainToHandsCreatePr(args, resp)
           prCalled == ~forged.threw /\ IsGithubPrProposal(proposal) /\ env.PUBLIC_BASE_URL # ""
           outcome ==
             CASE forged.threw -> forged
               [] ~IsGithubPrProposal(proposal) ->
                    Throw("forgeProposal did not return a github_pr proposal with payload")
               [] env.PUBLIC_BASE_URL = "" -> Throw("Missing env var: PUBLIC_BASE_URL")
               [] created.threw -> created
               [] created.value.prUrl = "" -> Throw("PR creation returned no prUrl")
               [] OTHER -> created
           answers == [llm |-> LlmAnswer(llm),
                       github |-> IF LlmAnswer(llm) = "proposal" THEN PrAnswer(resp) ELSE ""]
           forgeCall == Call("forgeProposal", "forge", "", NoComment,
                             IF ~HasInstruction(ForgeInput) THEN "not_sent"
                             ELSE IF forged.threw THEN "failed" ELSE "ok",
                             forged.error, answers)
           prCall == Call("brainToHandsCreatePr", "create_pr", "", NoComment,
                          IF ~HasPrArguments(args) THEN "not_sent"
                          ELSE IF created.threw THEN "failed" ELSE "ok",
                          created.error, answers)
       IN  /\ Resume("forge", outcome)
           /\ pr' = IF outcome.threw THEN pr ELSE created.value
           /\ calls' = calls \o <<forgeCall>> \o (IF prCalled THEN <<prCall>> ELSE <<>>)
  /\ UNCHANGED <<env, jira, clock, jiraKey, issues, key, validation, fp, pass, faults, app, gh, db, intake>>

Next ==
  \/ \E k \in Keys \cup {NoKey} : StartPass(k)
  \/ NextIssue
  \/ JiraTransition
  \/ JiraAddComment
  \/ ForgeThenCreatePr

Spec == Init /\ [][Next]_vars

(***************************************************************************)
(* One application of buildFingerprint, validateHardRules or forgeProposal *)
(* to arguments from a bounded set.                                        *)
(***************************************************************************)

(* texts of a description or of acceptance criteria *)
Texts ==
  { <<"a">>,
    <<"a", SP, "b", LF, "b">>,
    <<"a", LF, LF, "b", SP, "a">>,
    <<"b", SP, "a", LF, "a", LF, LF, "b">> }

(* s with every occurrence of the lexeme c replaced by the lexemes r *)
RECURSIVE Replace(_, _, _)
Replace(s, c, r) ==
  IF s = <<>> THEN <<>>
  ELSE (IF Head(s) = c THEN r ELSE <<Head(s)>>) \o Replace(Tail(s), c, r)

(* s with one more blank line wherever it has a blank line *)
RECURSIVE ExtraBlankLine(_)
ExtraBlankLine(s) ==
  IF Len(s) < 2 THEN s
  ELSE IF s[1] = LF /\ s[2] = LF THEN <<LF, LF, LF>> \o ExtraBlankLine(Drop(s, 2))
  ELSE <<Head(s)>> \o ExtraBlankLine(Tail(s))

(* the ways two clients store the same text *)
WhitespaceVariations ==
  {"crlf", "lone_cr", "blank_runs", "space_at_break", "blank_lines", "padding"}

Vary(how, s) ==
  CASE how = "crlf" -> Replace(s, LF, <<CR, LF>>)
    [] how = "lone_cr" -> Replace(s, LF, <<CR>>)
    [] how = "blank_runs" -> Replace(s, SP, <<SP, TAB, SP>>)
    [] how = "space_at_break" -> Replace(s, LF, <<SP, LF>>)
    [] how = "blank_lines" -> ExtraBlankLine(s)
    [] how = "padding" -> <<SP, LF>> \o s \o <<TAB, CR, LF, SP>>
    [] OTHER -> s

(* two snapshots of a ticket: the second is the first stored another way, *)
(* or the first updated later                                             *)
SnapshotPairs ==
  { [a |-> [jiraKey |-> "ORKY-10", jiraUpdatedAt |-> 1, jiraStatus |-> STATUS_READY,
            acceptanceCriteria |-> ac, description |-> d],
     b |-> [jiraKey |-> "ORKY-10", jiraUpdatedAt |-> IF how = "updated" THEN 2 ELSE 1,
            jiraStatus |-> STATUS_READY,
            acceptanceCriteria |-> Vary(how, ac), description |-> Vary(how, d)],
     how |-> how] :
    ac \in Texts, d \in Texts, how \in WhitespaceVariations \cup {"updated"} }

(* the issues validateHardRules is applied to *)
Snapshots ==
  { [key |-> "ORKY-10",
     fields |-> [status |-> st, summary |-> su, labels |-> la, description |-> de,
                 acField |-> af, updated |-> 1]] :
    st \in {STATUS_READY, STATUS_IN_REVIEW},
    su \in {GoodSummary, ShortSummary, <<SP, TAB>>, <<>>},
    la \in {<<>>, <<"ui">>, <<"ui", "Blocked">>, <<"needs-info", "blocked", "Blocked">>},
    de \in {NullDescription, StringDescription(StoryWithCriteria),
            StringDescription(StoryWithoutCriteria), StringDescription(<<SP, LF>>),
            AdfDescription(<< <<"a">>, <<AC_HEADING, COLON>>, <<"b">> >>)},
    af \in {<<>>, <<"b", LF, LF, LF, "a">>} }

(* the arguments forgeProposal is applied to: the body of POST            *)
(* /api/brain/forge, or the scanner's forgeInput, and the model's output  *)
ForgeArguments ==
  { [input |-> i, llm |-> l] :
    i \in { [instruction |-> "Add hello.txt", repo |-> "ohh-web", contextSources |-> <<>>],
            [jiraKey |-> "ORKY-10", target |-> [repo |-> "ohh-web"]] },
    l \in LlmResponses }

(* free texts that hold line breaks and the text of a label *)
LabelledTexts ==
  { <<"x">>, <<"z">>, <<"x", LF, "desc=", "y">>, <<"y", LF, "desc=", "z">> }

(* the arguments of buildFingerprint *)
FingerprintInputs ==
  { [jiraKey |-> k, jiraUpdatedAt |-> u, jiraStatus |-> st, acceptanceCriteria |-> ac,
     description |-> d] :
    k \in Keys, u \in {1, 2}, st \in {STATUS_READY, STATUS_IN_REVIEW},
    ac \in LabelledTexts, d \in LabelledTexts }

(* any two arguments of buildFingerprint *)
InputPairs == { [a |-> x, b |-> y, how |-> "any"] : x \in FingerprintInputs, y \in FingerprintInputs }

MaxTextLength == 5

(* the strings normalizeText is applied to: letters, space, tab, carriage *)
(* return and line feed                                                   *)
TextAlphabet == {"a", SP, TAB, CR, LF}
RawTexts == UNION { [1..n -> TextAlphabet] : n \in 0..MaxTextLength }

AppInit ==
  /\ env \in EnvConfigs
  /\ jira = [k \in Keys |->
               [status |-> STATUS_READY, summary |-> GoodSummary, labels |-> <<>>,
                description |-> NullDescription, acField |-> <<>>,
                updated |-> InitialUpdated(k)]]
  /\ NotStarted
  /\ gh = NoGh
  /\ db = NoDb
  /\ intake = NoIntake
  /\ app \in {[fn |-> "buildFingerprint", args |-> x, result |-> <<>>] :
                x \in SnapshotPairs \cup InputPairs}
         \cup {[fn |-> "validateHardRules", args |-> x, result |-> <<>>] : x \in Snapshots}
         \cup {[fn |-> "forgeProposal", args |-> x, result |-> <<>>] : x \in ForgeArguments}
         \cup {[fn |-> "normalizeText", args |-> [s |-> x], result |-> <<>>] : x \in RawTexts}

(* buildFingerprint on both snapshots of a pair *)
ApplyBuildFingerprint ==
  /\ app.fn = "buildFingerprint"
  /\ app.result = <<>>
  /\ app' = [app EXCEPT !.result = <<buildFingerprint(app.args.a), buildFingerprint(app.args.b)>>]
  /\ UNCHANGED <<scanner, gh, db, intake>>

(* validateHardRules(issue), a first and a second time *)
ApplyValidateHardRules ==
  /\ app.fn = "validateHardRules"
  /\ Len(app.result) < 2
  /\ app' = [app EXCEPT !.result = Append(@, validateHardRules(app.args))]
  /\ UNCHANGED <<scanner, gh, db, intake>>

(* normalizeText(s), as validateHardRules applies it, and normalizeText of *)
(* that result, as buildFingerprint applies it to the extracted fields    *)
ApplyNormalizeText ==
  /\ app.fn = "normalizeText"
  /\ Len(app.result) < 2
  /\ app' = [app EXCEPT !.result =
                Append(@, normalizeText(IF @ = <<>> THEN app.args.s ELSE @[Len(@)]))]
  /\ UNCHANGED <<scanner, gh, db, intake>>

(* await forgeProposal(input) settles *)
ApplyForgeProposal ==
  /\ app.fn = "forgeProposal"
  /\ app.result = <<>>
  /\ app' = [app EXCEPT !.result = <<forgeProposal(app.args.input, app.args.llm)>>]
  /\ UNCHANGED <<scanner, gh, db, intake>>

AppNext ==
  \/ ApplyBuildFingerprint
  \/ ApplyValidateHardRules
  \/ ApplyForgeProposal
  \/ ApplyNormalizeText

AppSpec == AppInit /\ [][AppNext]_vars

(***************************************************************************)
(* The Repository Mutator, POST /api/github/pr (api/github/pr.js): one     *)
(* invocation of handler(req, res) against one GitHub repository.          *)
(*   gh.pc     the await the handler is at                                 *)
(*   gh.req    the request: key, method and body                           *)
(*   gh.repo   the repository: refs, and the objects the invocation made   *)
(*   gh.log    the requests sent to GitHub, each with whether it succeeded *)
(*   gh.res    the response, once sent                                     *)
(***************************************************************************)
MaxFiles == 3

GH_DEFAULT_BRANCH == "main"
BaseCommitSha == "c0"
BaseTreeSha == "t0"
(* `orky/${Date.now()}-${Math.random()...}`: a name no branch has yet *)
GeneratedHead == "orky/1"
Branches == {GH_DEFAULT_BRANCH, "feature", GeneratedHead}

GoodFile(n) == [path |-> "p" \o ToString(n), content |-> "c" \o ToString(n)]
(* a file without a path *)
BadFile == [path |-> "", content |-> "c"]

FileLists ==
  { [k \in 1..n |-> GoodFile(k)] : n \in 0..MaxFiles }
    \cup { <<BadFile>>, <<GoodFile(1), BadFile>> }

NoRes == [status |-> 0, ok |-> FALSE, error |-> "", prUrl |-> ""]

Requests ==
  { [key |-> k, method |-> m,
     body |-> [repo |-> r, branchName |-> b, prTitle |-> "", prBody |-> "",
               commitMessage |-> cm, isArray |-> a, files |-> fs]] :
    k \in {"secret", "wrong", ""}, m \in {"POST", "GET"}, r \in {"ohh-web", ""},
    b \in {"", "feature"}, cm \in {"", "m"}, a \in BOOLEAN, fs \in FileLists }

(* the step after a step that succeeded; i is the next file of the loop *)
(* a handler that commits after every file *)
NextStepCommittingEachFile(step, i, n) ==
  CASE step = "get_base_ref" -> "create_ref"
    [] step = "create_ref" -> "get_base_commit"
    [] step = "get_base_commit" -> "blobs"
    [] step = "blobs" -> "tree"
    [] step = "tree" -> "commit"
    [] step = "commit" -> "move_ref"
    [] step = "move_ref" -> IF i <= n THEN "blobs" ELSE "pulls"
    [] OTHER -> "done"

NextStep(step, i, n) ==
  CASE step = "get_base_ref" -> "create_ref"
    [] step = "create_ref" -> "get_base_commit"
    [] step = "get_base_commit" -> "blobs"
    [] step = "blobs" -> IF i <= n THEN "blobs" ELSE "tree"
    [] step = "tree" -> "commit"
    [] step = "commit" -> "move_ref"
    [] step = "move_ref" -> "pulls"
    [] OTHER -> "done"

(* return res.status(status).json({ ok: false, error }) *)
Respond(g, status, error) ==
  [g EXCEPT !.pc = "done",
            !.res = [status |-> status, ok |-> FALSE, error |-> error, prUrl |-> ""]]

(* a handler that goes on after a request failed *)
SwallowError(g, step) ==
  LET i == IF step = "blobs" THEN g.i + 1 ELSE g.i
  IN  [g EXCEPT !.i = i, !.pc = NextStep(step, i, Len(g.req.body.files))]

(* catch (err) { return res.status(500).json(...) } *)
CatchRequestError(g, step) == Respond(g, 500, step)

(* await octokit.request(...) *)
Sent(g, step, ok) == [g EXCEPT !.log = Append(@, [name |-> step, ok |-> ok])]

Advance(g, step) == [g EXCEPT !.pc = NextStep(step, g.i, Len(g.req.body.files))]

(* the tree of a commit of the repository *)
TreeOfCommit(g, sha) ==
  IF sha = BaseCommitSha THEN BaseTreeSha
  ELSE LET c == CHOOSE c \in Range(g.repo.commits) : c.sha = sha IN c.tree

(* force: false -- the ref moves only forward, to a child of its commit *)
MoveRefForce == FALSE
FastForward(g, sha) ==
  \E c \in Range(g.repo.commits) : c.sha = sha /\ g.repo.refs[g.head] \in Range(c.parents)

PrInit ==
  /\ env \in EnvConfigs
  /\ jira = [k \in Keys |->
               [status |-> STATUS_READY, summary |-> GoodSummary, labels |-> <<>>,
                description |-> NullDescription, acField |-> <<>>,
                updated |-> InitialUpdated(k)]]
  /\ NotStarted
  /\ app = NoApp
  /\ db = NoDb
  /\ intake = NoIntake
  /\ \E req \in Requests, exists \in BOOLEAN :
       gh = [pc |-> "received", req |-> req, head |-> "", baseSha |-> "", baseTreeSha |-> "",
             tree |-> <<>>, i |-> 1, newTree |-> "", newCommit |-> "", log |-> <<>>,
             repo |-> [refs |-> [b \in Branches |->
                                   IF b = GH_DEFAULT_BRANCH \/ (b = "feature" /\ exists)
                                   THEN BaseCommitSha ELSE ""],
                       blobs |-> <<>>, trees |-> <<>>, commits |-> <<>>, pulls |-> <<>>],
             res |-> NoRes]

(* the checks before the first request to GitHub *)
Receive ==
  /\ gh.pc = "received"
  /\ \E configured \in BOOLEAN, installed \in BOOLEAN :
       gh' =
         IF env.ORKY_API_KEY = "" THEN Respond(gh, 500, "Missing env var: ORKY_API_KEY")
         ELSE IF gh.req.key = "" \/ gh.req.key # env.ORKY_API_KEY
         THEN Respond(gh, 401, "Unauthorized")
         ELSE IF gh.req.method # "POST" THEN Respond(gh, 405, "Use POST")
         ELSE IF ~configured THEN Respond(gh, 500, "Missing env var: GH_OWNER")
         ELSE IF gh.req.body.repo = "" THEN Respond(gh, 400, "Missing body.repo")
         ELSE IF ~gh.req.body.isArray \/ gh.req.body.files = <<>>
         THEN Respond(gh, 400, "Missing body.files[]")
         ELSE IF ~installed THEN Respond(gh, 500, "Missing env var: GH_APP_ID")
         ELSE [gh EXCEPT !.head = IF gh.req.body.branchName # "" THEN gh.req.body.branchName
                                  ELSE GeneratedHead,
                         !.pc = "get_base_ref"]
  /\ UNCHANGED <<scanner, app, db, intake>>

(* GET /repos/{owner}/{repo}/git/ref/heads/{base} *)
GetBaseRef ==
  /\ gh.pc = "get_base_ref"
  /\ \E ok \in BOOLEAN :
       gh' = IF ok
             THEN Advance([Sent(gh, "get_base_ref", TRUE) EXCEPT
                             !.baseSha = gh.repo.refs[GH_DEFAULT_BRANCH]], "get_base_ref")
             ELSE CatchRequestError(Sent(gh, "get_base_ref", FALSE), "get_base_ref")
  /\ UNCHANGED <<scanner, app, db, intake>>

(* POST /repos/{owner}/{repo}/git/refs: fails when the branch exists *)
CreateRef ==
  /\ gh.pc = "create_ref"
  /\ \E answer \in BOOLEAN :
       LET ok == answer /\ gh.repo.refs[gh.head] = ""
       IN  gh' = IF ok
                 THEN Advance([Sent(gh, "create_ref", TRUE) EXCEPT
                                 !.repo.refs[gh.head] = gh.baseSha], "create_ref")
                 ELSE CatchRequestError(Sent(gh, "create_ref", FALSE), "create_ref")
  /\ UNCHANGED <<scanner, app, db, intake>>

(* GET /repos/{owner}/{repo}/git/commits/{baseSha} *)
GetBaseCommit ==
  /\ gh.pc = "get_base_commit"
  /\ \E ok \in BOOLEAN :
       gh' = IF ok
             THEN Advance([Sent(gh, "get_base_commit", TRUE) EXCEPT
                             !.baseTreeSha = TreeOfCommit(gh, gh.baseSha)], "get_base_commit")
             ELSE CatchRequestError(Sent(gh, "get_base_commit", FALSE), "get_base_commit")
  /\ UNCHANGED <<scanner, app, db, intake>>

(* one turn of for (const f of files): the check of f, then POST .../git/blobs *)
CreateBlob ==
  /\ gh.pc = "blobs"
  /\ LET f == gh.req.body.files[gh.i]
         sha == "b" \o ToString(Len(gh.repo.blobs) + 1)
     IN  \E ok \in BOOLEAN :
           gh' = IF f.path = ""
                 THEN Respond(gh, 400, "Each file must include { path, content }")
                 ELSE IF ok
                 THEN LET g == [Sent(gh, "blobs", TRUE) EXCEPT
                                  !.repo.blobs = Append(@, [sha |-> sha, content |-> f.content]),
                                  !.tree = Append(@, [path |-> f.path, sha |-> sha]),
                                  !.i = @ + 1]
                      IN  Advance(g, "blobs")
                 ELSE CatchRequestError(Sent(gh, "blobs", FALSE), "blobs")
  /\ UNCHANGED <<scanner, app, db, intake>>

(* POST /repos/{owner}/{repo}/git/trees *)
CreateTree ==
  /\ gh.pc = "tree"
  /\ LET sha == "t" \o ToString(Len(gh.repo.trees) + 1)
     IN  \E ok \in BOOLEAN :
           gh' = IF ok
                 THEN Advance([Sent(gh, "tree", TRUE) EXCEPT
                                 !.repo.trees = Append(@, [sha |-> sha,
                                                           base_tree |-> gh.baseTreeSha,
                                                           tree |-> gh.tree]),
                                 !.newTree = sha], "tree")
                 ELSE CatchRequestError(Sent(gh, "tree", FALSE), "tree")
  /\ UNCHANGED <<scanner, app, db, intake>>

(* POST /repos/{owner}/{repo}/git/commits *)
CreateCommit ==
  /\ gh.pc = "commit"
  /\ LET sha == "c" \o ToString(Len(gh.repo.commits) + 1)
         message == IF gh.req.body.commitMessage # "" THEN gh.req.body.commitMessage
                ELSE "Orky update (" \o gh.head \o ")"
     IN  \E ok \in BOOLEAN :
           gh' = IF ok
                 THEN Advance([Sent(gh, "commit", TRUE) EXCEPT
                                 !.repo.commits = Append(@, [sha |-> sha, message |-> message,
                                                             tree |-> gh.newTree,
                                                             parents |-> <<gh.baseSha>>]),
                                 !.newCommit = sha], "commit")
                 ELSE CatchRequestError(Sent(gh, "commit", FALSE), "commit")
  /\ UNCHANGED <<scanner, app, db, intake>>

(* PATCH /repos/{owner}/{repo}/git/refs/heads/{head} *)
MoveRef ==
  /\ gh.pc = "move_ref"
  /\ \E answer \in BOOLEAN :
       LET ok == answer /\ (MoveRefForce \/ FastForward(gh, gh.newCommit))
       IN  gh' = IF ok
                 THEN Advance([Sent(gh, "move_ref", TRUE) EXCEPT
                                 !.repo.refs[gh.head] = gh.newCommit], "move_ref")
                 ELSE CatchRequestError(Sent(gh, "move_ref", FALSE), "move_ref")
  /\ UNCHANGED <<scanner, app, db, intake>>

(* POST /repos/{owner}/{repo}/pulls, then the 200 response *)
OpenPull ==
  /\ gh.pc = "pulls"
  /\ LET message == IF gh.req.body.commitMessage # "" THEN gh.req.body.commitMessage
                ELSE "Orky update (" \o gh.head \o ")"
         number == Len(gh.repo.pulls) + 1
         url == "https://github.com/o/" \o gh.req.body.repo \o "/pull/" \o ToString(number)
     IN  \E ok \in BOOLEAN :
           gh' = IF ok
                 THEN [Sent(gh, "pulls", TRUE) EXCEPT
                         !.repo.pulls = Append(@, [head |-> gh.head, base |-> GH_DEFAULT_BRANCH,
                                                   title |-> IF gh.req.body.prTitle # ""
                                                             THEN gh.req.body.prTitle
                                                             ELSE "Orky PR: " \o message,
                                                   headSha |-> gh.repo.refs[gh.head],
                                                   draft |-> FALSE]),
                         !.pc = "done",
                         !.res = [status |-> 200, ok |-> TRUE, error |-> "", prUrl |-> url]]
                 ELSE CatchRequestError(Sent(gh, "pulls", FALSE), "pulls")
  /\ UNCHANGED <<scanner, app, db, intake>>

PrNext ==
  \/ Receive
  \/ GetBaseRef
  \/ CreateRef
  \/ GetBaseCommit
  \/ CreateBlob
  \/ CreateTree
  \/ CreateCommit
  \/ MoveRef
  \/ OpenPull

PrSpec == PrInit /\ [][PrNext]_vars

(***************************************************************************)
(* The Control API (routes.ts) over the Run Store (db/queries.ts and the   *)
(* table orky_runs).  Requests arrive at any time and their handlers       *)
(* interleave at every await.                                              *)
(*   db.runs   the rows of orky_runs; a row's id is its position           *)
(*   db.reqs   the requests so far: route, body or :id, the handler's      *)
(*             position, the row getRun returned, the response             *)
(*   db.log    every insert and update of orky_runs so far, with the row   *)
(*             before and after                                            *)
(***************************************************************************)
MaxRequests == 3

NULL == "null"
DefaultMaxAutofixAttempts == 3

(* req.body?.jira_key: absent, blank, or a key with or without padding *)
JiraKeyBodies ==
  { <<>>, <<SP, TAB>>, <<"ORKY-1">>, <<SP, "ORKY-1", LF>>, <<"ORKY-2">> }

(* a handler that does not trim the key *)
KeepPadding(s) == s

(* String(req.body?.jira_key ?? "").trim() *)
TrimKey(s) == Trim(s)

RunIds == 1..MaxRequests

NoRun == [id |-> 0]
NoResponse == [status |-> 0, body |-> <<>>]

ArrivingRequests ==
  { [route |-> "create", jira_key |-> k, id |-> 0, pc |-> "received",
     run |-> NoRun, res |-> NoResponse] : k \in JiraKeyBodies }
  \cup { [route |-> r, jira_key |-> <<>>, id |-> i, pc |-> "received",
          run |-> NoRun, res |-> NoResponse] : r \in {"start", "cancel"}, i \in RunIds }

(* the row createRun inserts; the other columns take their defaults *)
NewRun(id, ticket) ==
  [id |-> id, jira_key |-> ticket,
   cursor_state |-> "RECEIVED", cursor_step |-> "INTAKE_START", cursor_attempt |-> 0,
   locked_by |-> NULL, lock_expires_at |-> NULL,
   max_autofix_attempts |-> DefaultMaxAutofixAttempts, last_error |-> NULL]

(* a table without the unique index *)
NoUniqueIndex(runs, ticket) == FALSE

(* uq_orky_runs_jira_key_active: unique index on orky_runs (jira_key) *)
UniqueViolation(runs, ticket) == \E i \in 1..Len(runs) : runs[i].jira_key = ticket

DuplicateKeyError ==
  "duplicate key value violates unique constraint \"uq_orky_runs_jira_key_active\""
PersistenceError == "fetch failed"
NoRowsError == "JSON object requested, multiple (or no) rows returned"

(* res.status(status).json(body) *)
Answer(r, status, body) ==
  [db.reqs[r] EXCEPT !.pc = "done", !.res = [status |-> status, body |-> body]]

(* a start that counts an attempt *)
CursorCountingAttempt(route, run) ==
  IF route = "start"
  THEN [cursor_state |-> "RECEIVED", cursor_step |-> "INTAKE_START",
        cursor_attempt |-> run.cursor_attempt + 1]
  ELSE [cursor_state |-> "CANCELLED", cursor_step |-> "CANCELLED",
        cursor_attempt |-> run.cursor_attempt]

(* the arguments the route passes to setRunCursor *)
CursorOf(route, run) ==
  IF route = "start"
  THEN [cursor_state |-> "RECEIVED", cursor_step |-> "INTAKE_START",
        cursor_attempt |-> run.cursor_attempt]
  ELSE [cursor_state |-> "CANCELLED", cursor_step |-> "CANCELLED",
        cursor_attempt |-> run.cursor_attempt]

RunInit ==
  /\ env = BaseEnv
  /\ jira = [k \in Keys |->
               [status |-> STATUS_READY, summary |-> GoodSummary, labels |-> <<>>,
                description |-> NullDescription, acField |-> <<>>,
                updated |-> InitialUpdated(k)]]
  /\ NotStarted
  /\ app = NoApp
  /\ gh = NoGh
  /\ intake = NoIntake
  /\ db = [runs |-> <<>>, reqs |-> <<>>, log |-> <<>>]

(* a request reaches the Control API *)
Arrive ==
  /\ Len(db.reqs) < MaxRequests
  /\ \E q \in ArrivingRequests : db' = [db EXCEPT !.reqs = Append(@, q)]
  /\ UNCHANGED <<scanner, app, gh, intake>>

(* app.post("/runs"): the check of jira_key, then createRun *)
PostRuns ==
  /\ \E r \in 1..Len(db.reqs), reachable \in BOOLEAN :
       /\ db.reqs[r].route = "create"
       /\ db.reqs[r].pc = "received"
       /\ LET jira_key == TrimKey(db.reqs[r].jira_key)
              id == Len(db.runs) + 1
              run == NewRun(id, jira_key)
          IN  db' =
                IF jira_key = <<>>
                THEN [db EXCEPT !.reqs[r] = Answer(r, 400, [error |-> "jira_key required"])]
                ELSE IF ~reachable
                THEN [db EXCEPT !.reqs[r] = Answer(r, 500, [error |-> PersistenceError])]
                ELSE IF UniqueViolation(db.runs, jira_key)
                THEN [db EXCEPT !.reqs[r] = Answer(r, 500, [error |-> DuplicateKeyError])]
                ELSE [db EXCEPT !.runs = Append(@, run),
                                !.log = Append(@, [op |-> "insert", by |-> r, id |-> id,
                                                   before |-> NoRun, after |-> run]),
                                !.reqs[r] = Answer(r, 201, run)]
  /\ UNCHANGED <<scanner, app, gh, intake>>

(* const run = await getRun(id), in /runs/:id/start and /runs/:id/cancel *)
GetRun ==
  /\ \E r \in 1..Len(db.reqs), reachable \in BOOLEAN :
       /\ db.reqs[r].route \in {"start", "cancel"}
       /\ db.reqs[r].pc = "received"
       /\ db' =
            IF ~reachable
            THEN [db EXCEPT !.reqs[r] = Answer(r, 500, [error |-> PersistenceError])]
            ELSE IF db.reqs[r].id > Len(db.runs)
            THEN [db EXCEPT !.reqs[r] = Answer(r, 500, [error |-> NoRowsError])]
            ELSE [db EXCEPT !.reqs[r].pc = "read", !.reqs[r].run = db.runs[db.reqs[r].id]]
  /\ UNCHANGED <<scanner, app, gh, intake>>

(* const updated = await setRunCursor(run.id, state, step, run.cursor_attempt) *)
SetRunCursor ==
  /\ \E r \in 1..Len(db.reqs), reachable \in BOOLEAN :
       /\ db.reqs[r].pc = "read"
       /\ LET id == db.reqs[r].run.id
              cursor == CursorOf(db.reqs[r].route, db.reqs[r].run)
              updated == [db.runs[id] EXCEPT !.cursor_state = cursor.cursor_state,
                                             !.cursor_step = cursor.cursor_step,
                                             !.cursor_attempt = cursor.cursor_attempt]
          IN  db' =
                IF ~reachable
                THEN [db EXCEPT !.reqs[r] = Answer(r, 500, [error |-> PersistenceError])]
                ELSE [db EXCEPT !.runs[id] = updated,
                                !.log = Append(@, [op |-> "update", by |-> r, id |-> id,
                                                   before |-> db.runs[id], after |-> updated]),
                                !.reqs[r] = Answer(r, 200, updated)]
  /\ UNCHANGED <<scanner, app, gh, intake>>

RunNext ==
  \/ Arrive
  \/ PostRuns
  \/ GetRun
  \/ SetRunCursor

RunSpec == RunInit /\ [][RunNext]_vars

(***************************************************************************)
(* The intake: POST /api/intake in batch mode (api/intake.js) and          *)
(* POST /api/intake/batch (api/intake/batch.js).  One request, whose body  *)
(* holds a list of epics, each with stories.                               *)
(*   intake.handler   "intake" or "batch"                                  *)
(*   intake.req       method, key and body of the request                  *)
(*   intake.meta      what Jira's createmeta says is required              *)
(*   intake.i, .j     the loops' positions; .epicKey, .storyResults the    *)
(*                    locals of the current epic                           *)
(*   intake.totals, .items   the counters and per-epic entries of the      *)
(*                    report                                               *)
(*   intake.sent      the POST /rest/api/3/issue requests so far           *)
(*   intake.res       the response, once sent                              *)
(* A JSON value of the body is [t |-> its type, v |-> its content].        *)
(***************************************************************************)
MaxEpics == 2

Undefined == [t |-> "undefined", v |-> <<>>]
Str(s) == [t |-> "string", v |-> s]
(* an object such as {"toString": null}: String(v) throws a TypeError *)
Unprintable == [t |-> "object", v |-> <<>>]
Obj(f) == [t |-> "object", v |-> f]
Arr(f) == [t |-> "array", v |-> f]

(* v is truthy: v || fallback gives v *)
Truthy(v) == v.t \in {"object", "array"} \/ (v.t = "string" /\ v.v # <<>>)

adf(text) == [type |-> "doc", text |-> text]

EvilFields ==
  [project |-> [key |-> "EVIL"], issuetype |-> [name |-> "Bug"], summary |-> Str(<<"EVIL">>),
   description |-> adf("EVIL"), parent |-> [key |-> "EVIL-1"], labels |-> <<"x">>]

ExtraFields ==
  { Undefined,
    Obj(EvilFields),
    Obj([reporter |-> [accountId |-> "someone"], priority |-> [name |-> "High"]]),
    Arr([k \in {"0"} |-> <<"x">>]) }

EpicItems ==
  { [epicSummary |-> Str(<<"Epic">>), fields |-> f, stories |-> ss] :
      f \in ExtraFields,
      ss \in { <<>>,
               <<[storySummary |-> Str(<<"Story", SP>>), fields |-> Obj(EvilFields)],
                 [storySummary |-> Undefined,
                  fields |-> Obj([reporter |-> [accountId |-> "someone"],
                                  priority |-> [name |-> "High"]])]>> } }
  \cup { [epicSummary |-> Str(<<SP>>), fields |-> Undefined,
          stories |-> <<[storySummary |-> Str(<<"Story", SP>>), fields |-> Undefined]>>],
         [epicSummary |-> Str(<<"Epic">>), fields |-> Undefined,
          stories |-> <<[storySummary |-> Str(<<"Story", SP>>), fields |-> Arr([k \in {"0"} |-> <<"x">>])],
                        [storySummary |-> Unprintable, fields |-> Undefined]>>],
         [epicSummary |-> Unprintable, fields |-> Undefined, stories |-> <<>>] }

EpicLists == UNION { [1..n -> EpicItems] : n \in 0..MaxEpics }

(* createmeta: is reporter required, is the Epic Name field, is components *)
MetaConfigs ==
  { [reporter |-> FALSE, epicName |-> FALSE, components |-> FALSE],
    [reporter |-> TRUE, epicName |-> TRUE, components |-> FALSE],
    [reporter |-> FALSE, epicName |-> FALSE, components |-> TRUE] }

EpicNameFieldId == "customfield_10011"

(* the field ids createmeta marks as required for an issue type *)
RequiredFields(meta, issueType) ==
  {"project", "summary", "issuetype"}
    \cup (IF meta.reporter THEN {"reporter"} ELSE {})
    \cup (IF meta.epicName /\ issueType = "Epic" THEN {EpicNameFieldId} ELSE {})
    \cup (IF meta.components THEN {"components"} ELSE {})

missingRequired(required, fieldsPayload) == required \ DOMAIN fieldsPayload

(* f with g's entries added or replacing f's *)
Assign(f, g) == [k \in DOMAIN f \cup DOMAIN g |-> IF k \in DOMAIN g THEN g[k] ELSE f[k]]
Without(g, ks) == [k \in DOMAIN g \ ks |-> g[k]]

(* a merge that lets the caller's fields replace every key *)
MergeOverriding(baseFields, extraFields) ==
  IF extraFields.t # "object" THEN baseFields ELSE Assign(baseFields, extraFields.v)

(* batch.js *)
mergeAllowed(baseFields, extraFields) ==
  IF extraFields.t # "object" THEN baseFields
  ELSE Assign(baseFields,
              Without(extraFields.v, {"project", "issuetype", "parent", "summary", "description"}))

(* intake.js *)
mergeExtraFields(baseFields, extraFields) ==
  IF extraFields.t \notin {"object", "array"} THEN baseFields
  ELSE Assign(baseFields,
              Without(extraFields.v,
                      {"project", "summary", "issuetype", "description", "parent", "reporter"}))

MyAccountId == "me"
JiraDown == 503
JiraRejects == 400
MissingFieldsStatus == 400
SkippedStatus == 424

(* const epicFields = {...} of createEpic (intake.js) and of the loop (batch.js) *)
EpicBase(summary, description, meta, projectKey) ==
  Assign(Assign([project |-> [key |-> projectKey], summary |-> summary,
                 issuetype |-> [name |-> "Epic"], description |-> adf(description)],
                IF meta.epicName THEN [k \in {EpicNameFieldId} |-> summary] ELSE <<>>),
         IF meta.reporter THEN [reporter |-> [accountId |-> MyAccountId]] ELSE <<>>)

(* const storyFields = {...} *)
StoryBase(summary, description, parentKey, meta, projectKey) ==
  Assign([project |-> [key |-> projectKey], summary |-> summary,
          issuetype |-> [name |-> "Story"], description |-> adf(description),
          parent |-> [key |-> parentKey]],
         IF meta.reporter THEN [reporter |-> [accountId |-> MyAccountId]] ELSE <<>>)

NoTotals ==
  [epicsRequested |-> 0, epicsCreated |-> 0, epicsFailed |-> 0,
   storiesRequested |-> 0, storiesCreated |-> 0, storiesFailed |-> 0]

EpicsOfRequest == intake.req.body.epics
StoriesOf(g) == g.req.body.epics[g.i].stories

(* return res.status(status).json(...) *)
IntakeRespond(g, status, error) ==
  [g EXCEPT !.pc = "done", !.res = [status |-> status, ok |-> FALSE, error |-> error]]

(* the end of for (let i ...): the next epic, or the 200 report *)
NextEpicRecord(g) ==
  IF g.i + 1 > Len(g.req.body.epics)
  THEN [g EXCEPT !.i = @ + 1, !.pc = "done", !.res = [status |-> 200, ok |-> TRUE, error |-> ""]]
  ELSE [g EXCEPT !.i = @ + 1, !.pc = "epic"]

(* results.push / report.epics.push of an epic that was not created in batch.js *)
FailEpic(g, error, status) ==
  NextEpicRecord([g EXCEPT !.totals.epicsFailed = @ + 1,
                           !.items = Append(@, [index |-> g.i, ok |-> FALSE, error |-> error,
                                                statusCode |-> status, epicKey |-> NULL,
                                                stories |-> <<>>])])

(* after a story: the next story, or the entry of the epic and the next epic *)
NextStoryRecord(g, storyItem) ==
  LET h == [g EXCEPT !.storyResults = Append(@, storyItem), !.j = @ + 1]
  IN  IF h.j > Len(StoriesOf(h))
      THEN NextEpicRecord([h EXCEPT !.items = Append(@, [index |-> h.i, ok |-> h.epicOk,
                                                         error |-> h.epicError,
                                                         statusCode |-> 0, epicKey |-> h.epicKey,
                                                         stories |-> h.storyResults])])
      ELSE h

(* the stories of an epic begin (or, there being none, its entry is pushed) *)
BeginStories(g) ==
  LET h == [g EXCEPT !.storyResults = <<>>, !.j = 1, !.pc = "stories"]
  IN  IF StoriesOf(h) = <<>>
      THEN NextEpicRecord([h EXCEPT !.items = Append(@, [index |-> h.i, ok |-> h.epicOk,
                                                         error |-> h.epicError,
                                                         statusCode |-> 0, epicKey |-> h.epicKey,
                                                         stories |-> <<>>])])
      ELSE h

Post(g, issueType, fields, computed, extra, ok) ==
  [g EXCEPT !.sent = Append(@, [issuetype |-> issueType, fields |-> fields,
                                computed |-> computed, extra |-> extra, ok |-> ok,
                                epic |-> g.i])]

IssueKey(g) == "ORKY-" \o ToString(Len(g.sent) + 1)

IntakeInit ==
  /\ env \in {BaseEnv, [BaseEnv EXCEPT !.ORKY_API_KEY = ""]}
  /\ jira = [k \in Keys |->
               [status |-> STATUS_READY, summary |-> GoodSummary, labels |-> <<>>,
                description |-> NullDescription, acField |-> <<>>,
                updated |-> InitialUpdated(k)]]
  /\ NotStarted
  /\ app = NoApp
  /\ gh = NoGh
  /\ db = NoDb
  /\ \E h \in {"intake", "batch"}, m \in {"POST", "GET"}, k \in {"secret", "wrong"},
        epics \in EpicLists, dryRun \in BOOLEAN, meta \in MetaConfigs :
       intake = [pc |-> "received", handler |-> h,
                 req |-> [method |-> m, key |-> k, body |-> [epics |-> epics, dryRun |-> dryRun]],
                 meta |-> meta, i |-> 0, j |-> 0, epicKey |-> NULL, epicOk |-> FALSE,
                 epicError |-> "", storyResults |-> <<>>, totals |-> NoTotals, items |-> <<>>,
                 sent |-> <<>>, res |-> [status |-> 0, ok |-> FALSE, error |-> ""]]

(* the handlers up to the loop over the epics *)
IntakeReceive ==
  /\ intake.pc = "received"
  /\ \E jiraUp \in BOOLEAN :
       intake' =
         IF intake.req.method # "POST" THEN IntakeRespond(intake, 405, "Use POST")
         ELSE IF env.ORKY_API_KEY = ""
         THEN IntakeRespond(intake, 500, "Missing env var: ORKY_API_KEY")
         ELSE IF intake.req.key # env.ORKY_API_KEY THEN IntakeRespond(intake, 401, "Unauthorized")
         ELSE IF intake.handler = "batch" /\ EpicsOfRequest = <<>>
         THEN IntakeRespond(intake, 400, "Body must include epics")
         ELSE IF ~jiraUp THEN IntakeRespond(intake, JiraDown, "Jira error")
         ELSE NextEpicRecord([intake EXCEPT !.totals.epicsRequested = Len(EpicsOfRequest)])
  /\ UNCHANGED <<scanner, app, gh, db>>

(* batch.js: one turn of for (let i ...) up to the stories *)
BatchEpic ==
  /\ intake.handler = "batch"
  /\ intake.pc = "epic"
  /\ \E answer \in {"ok", "create_failed"} :
       LET item == EpicsOfRequest[intake.i]
           epicSummary == Trim(item.epicSummary.v)
           base == EpicBase(Str(epicSummary), "Created by Orky batch API.", intake.meta,
                            env.JIRA_PROJECT_KEY)
           epicFields == mergeAllowed(base, item.fields)
           created(g, k) == BeginStories([g EXCEPT !.totals.epicsCreated = @ + 1,
                                                   !.epicKey = k, !.epicOk = TRUE,
                                                   !.epicError = ""])
       IN  intake' =
             IF item.epicSummary = Unprintable
             THEN IntakeRespond(intake, 500, "Cannot convert object to primitive value")
             ELSE IF epicSummary = <<>> THEN FailEpic(intake, "Missing epicSummary", 0)
             ELSE IF missingRequired(RequiredFields(intake.meta, "Epic"), epicFields) # {}
             THEN FailEpic(intake, "Jira requires additional fields for Epic.", 0)
             ELSE IF intake.req.body.dryRun THEN created(intake, "(dry-run)")
             ELSE IF answer = "ok"
             THEN created(Post(intake, "Epic", epicFields, base, item.fields, TRUE),
                          IssueKey(intake))
             ELSE FailEpic(Post(intake, "Epic", epicFields, base, item.fields, FALSE),
                           "Jira error", JiraRejects)
  /\ UNCHANGED <<scanner, app, gh, db>>

(* batch.js: one turn of for (let j ...) *)
BatchStory ==
  /\ intake.handler = "batch"
  /\ intake.pc = "stories"
  /\ \E answer \in {"ok", "create_failed"} :
       LET s == StoriesOf(intake)[intake.j]
           storySummary == Trim(s.storySummary.v)
           real == intake.epicKey # "(dry-run)"
           base == StoryBase(Str(storySummary),
                             IF real THEN "Created by Orky batch API under Epic "
                                            \o intake.epicKey \o "."
                             ELSE "Created by Orky batch API.",
                             IF real THEN intake.epicKey ELSE "ORKY-EXAMPLE",
                             intake.meta, env.JIRA_PROJECT_KEY)
           storyFields == mergeAllowed(base, s.fields)
           failed(g, error) ==
             NextStoryRecord([g EXCEPT !.totals.storiesFailed = @ + 1],
                             [index |-> g.j, ok |-> FALSE, error |-> error])
           created(g) ==
             NextStoryRecord([g EXCEPT !.totals.storiesCreated = @ + 1],
                             [index |-> g.j, ok |-> TRUE, error |-> ""])
       IN  intake' =
             IF s.storySummary = Unprintable
             THEN FailEpic(intake, "Cannot convert object to primitive value", 500)
             ELSE IF storySummary = <<>> THEN failed(intake, "Missing storySummary")
             ELSE IF missingRequired(RequiredFields(intake.meta, "Story"), storyFields) # {}
             THEN failed(intake, "Jira requires additional fields for Story.")
             ELSE IF intake.req.body.dryRun THEN created(intake)
             ELSE IF answer = "ok"
             THEN created(Post(intake, "Story", storyFields, base, s.fields, TRUE))
             ELSE failed(Post(intake, "Story", storyFields, base, s.fields, FALSE), "Jira error")
  /\ UNCHANGED <<scanner, app, gh, db>>

(* intake.js: one turn of for (let i ...): createEpic in its try *)
IntakeEpic ==
  /\ intake.handler = "intake"
  /\ intake.pc = "epic"
  /\ \E answer \in {"ok", "read_failed", "create_failed"} :
       LET epicIn == EpicsOfRequest[intake.i]
           epicSummary == IF Truthy(epicIn.epicSummary) THEN epicIn.epicSummary
                          ELSE Str(<<"Orky - Epic">>)
           base == EpicBase(epicSummary, "Created by Orky API.", intake.meta,
                            env.JIRA_PROJECT_KEY)
           epicFields == mergeExtraFields(base, epicIn.fields)
           counted == [intake EXCEPT !.totals.storiesRequested = @ + Len(epicIn.stories)]
           failed(g, error, status) ==
             BeginStories([g EXCEPT !.totals.epicsFailed = @ + 1, !.epicKey = NULL,
                                    !.epicOk = FALSE, !.epicError = error])
           created(g, k) ==
             BeginStories([g EXCEPT !.totals.epicsCreated = @ + 1, !.epicKey = k,
                                    !.epicOk = TRUE, !.epicError = ""])
       IN  intake' =
             IF answer = "read_failed" THEN failed(counted, "Jira error", JiraDown)
             ELSE IF missingRequired(RequiredFields(intake.meta, "Epic"), epicFields) # {}
             THEN failed(counted, "Jira reports additional required fields for Epic.",
                         MissingFieldsStatus)
             ELSE IF intake.req.body.dryRun THEN created(counted, NULL)
             ELSE IF answer = "ok"
             THEN created(Post(counted, "Epic", epicFields, base, epicIn.fields, TRUE),
                          IssueKey(counted))
             ELSE failed(Post(counted, "Epic", epicFields, base, epicIn.fields, FALSE),
                         "Jira error", JiraRejects)
  /\ UNCHANGED <<scanner, app, gh, db>>

(* intake.js: one turn of for (let j ...): createStoryUnderEpic in its try *)
IntakeStory ==
  /\ intake.handler = "intake"
  /\ intake.pc = "stories"
  /\ \E answer \in {"ok", "read_failed", "create_failed"} :
       LET storyIn == StoriesOf(intake)[intake.j]
           keyToUse == IF intake.req.body.dryRun THEN "DRYRUN-EPIC" ELSE intake.epicKey
           storySummary == IF Truthy(storyIn.storySummary) THEN storyIn.storySummary
                           ELSE Str(<<"Story under " \o keyToUse>>)
           base == StoryBase(storySummary, "Created by Orky API under Epic " \o keyToUse \o ".",
                             keyToUse, intake.meta, env.JIRA_PROJECT_KEY)
           storyFields == mergeExtraFields(base, storyIn.fields)
           failed(g, error, status) ==
             NextStoryRecord([g EXCEPT !.totals.storiesFailed = @ + 1],
                             [index |-> g.j, ok |-> FALSE, error |-> error])
           created(g) ==
             NextStoryRecord([g EXCEPT !.totals.storiesCreated = @ + 1],
                             [index |-> g.j, ok |-> TRUE, error |-> ""])
       IN  intake' =
             IF intake.epicKey = NULL /\ ~intake.req.body.dryRun
             THEN failed(intake, "Skipped because Epic was not created.", SkippedStatus)
             ELSE IF answer = "read_failed" THEN failed(intake, "Jira error", JiraDown)
             ELSE IF missingRequired(RequiredFields(intake.meta, "Story"), storyFields) # {}
             THEN failed(intake, "Jira reports additional required fields for Story.",
                         MissingFieldsStatus)
             ELSE IF intake.req.body.dryRun THEN created(intake)
             ELSE IF answer = "ok"
             THEN created(Post(intake, "Story", storyFields, base, storyIn.fields, TRUE))
             ELSE failed(Post(intake, "Story", storyFields, base, storyIn.fields, FALSE),
                         "Jira error", JiraRejects)
  /\ UNCHANGED <<scanner, app, gh, db>>

IntakeNext ==
  \/ IntakeReceive
  \/ BatchEpic
  \/ BatchStory
  \/ IntakeEpic
  \/ IntakeStory

IntakeSpec == IntakeInit /\ [][IntakeNext]_vars

(***************************************************************************)
(* The tickets of the current pass that have their entry in results.items, *)
(* and the calls the pass made for them.                                   *)
(***************************************************************************)
Finished == { j \in 1..Len(results.items) : j <= Len(issues) }
Entry(j) == results.items[j]
StatusOf(j) == jira[issues[j].key].status
PassedValidation(j) == validateHardRules(issues[j]).blockers = <<>>
CallsOf(j) == { n \in 1..Len(calls) : calls[n].pass = pass /\ calls[n].key = issues[j].key }
At(j, site) == { n \in CallsOf(j) : calls[n].site = site }
Settled(j, site) == \E n \in At(j, site) : calls[n].result = "ok"
Threw(j, site) == \E n \in At(j, site) : calls[n].result # "ok"
SameTicket(m, n) == calls[m].pass = calls[n].pass /\ calls[m].key = calls[n].key
TrackerCalls == {"jiraTransition", "jiraAddComment"}
PipelineSites ==
  {"pickup_transition", "pickup_comment", "forge", "create_pr", "success_transition", "success_comment"}
CountOutcome(o) == Cardinality({ j \in 1..Len(results.items) : results.items[j].outcome = o })
(* the Error of the first call that threw for the ticket *)
FirstError(j) ==
  LET threw == { n \in CallsOf(j) : calls[n].result # "ok" }
  IN  calls[CHOOSE n \in threw : \A m \in threw : n <= m].error

(***************************************************************************)
(* C1: a ticket that passes validation, processed while every tracker call *)
(* succeeds and the Proposal Generator and the Repository Mutator are      *)
(* ready to answer with a proposal and a pull request url, gets the        *)
(* outcome pr_created_moved_to_in_review with a non-empty prUrl and a      *)
(* fingerprintShort of "fp_" and 8 hex digits, and is counted processed.   *)
(***************************************************************************)
C1_ValidTicketOpensPullRequest ==
  \A j \in Finished :
    ( /\ PassedValidation(j)
      /\ \A n \in CallsOf(j) : calls[n].call \in TrackerCalls => calls[n].result = "ok"
      /\ \A n \in At(j, "forge") :
           calls[n].answers.llm = "proposal" /\ calls[n].answers.github = "url" )
    => /\ Entry(j).outcome = "pr_created_moved_to_in_review"
       /\ Entry(j).prUrl # ""
       /\ Entry(j).fingerprintShort.prefix = "fp_"
       /\ Entry(j).fingerprintShort.hex.hexLength = ShortIdHexLength
       /\ results.processed = CountOutcome("pr_created_moved_to_in_review")

(***************************************************************************)
(* C2 as stated: forgeProposal is called only after the in-progress        *)
(* transition of the same ticket returned, and an in-review transition of  *)
(* a ticket that passed validation is invoked only after                   *)
(* brainToHandsCreatePr returned a pull request url for it.                *)
(***************************************************************************)
C2_InReviewOnlyAfterPullRequest ==
  \A n \in 1..Len(calls) :
    /\ calls[n].call = "forgeProposal" =>
         \E m \in 1..(n - 1) :
           SameTicket(m, n) /\ calls[m].site = "pickup_transition" /\ calls[m].result = "ok"
    /\ ( /\ calls[n].call = "jiraTransition"
         /\ calls[n].site # "pickup_transition"
         /\ calls[n].fingerprint # NoFingerprint.full ) =>
         \E m \in 1..(n - 1) :
           SameTicket(m, n) /\ calls[m].call = "brainToHandsCreatePr" /\ calls[m].result = "ok"

(***************************************************************************)
(* C2, amended: forgeProposal is called only after the in-progress         *)
(* transition of the same ticket returned; the in-review transition of a   *)
(* ticket that passed validation is either the one after                   *)
(* brainToHandsCreatePr returned, or the compensating one after a call for *)
(* the ticket threw.                                                       *)
(***************************************************************************)
C2_PickUpBeforeProposal ==
  \A n \in 1..Len(calls) :
    /\ calls[n].call = "forgeProposal" =>
         \E m \in 1..(n - 1) :
           /\ SameTicket(m, n)
           /\ calls[m].site = "pickup_transition"
           /\ calls[m].arg = TRANSITION_ID_TO_IN_PROGRESS
           /\ calls[m].result = "ok"
    /\ ( /\ calls[n].call = "jiraTransition"
         /\ calls[n].site # "pickup_transition"
         /\ calls[n].fingerprint # NoFingerprint.full ) =>
         \/ /\ calls[n].site = "success_transition"
            /\ \E m \in 1..(n - 1) :
                 SameTicket(m, n) /\ calls[m].call = "brainToHandsCreatePr" /\ calls[m].result = "ok"
         \/ /\ calls[n].site = "comp_transition"
            /\ \E m \in 1..(n - 1) : SameTicket(m, n) /\ calls[m].result # "ok"

(* a ticket was picked up, the proposal was asked for, and the failure was compensated *)
C2_Witness ==
  \E n \in 1..Len(calls) :
    /\ calls[n].call = "forgeProposal"
    /\ \E m \in (n + 1)..Len(calls) :
         SameTicket(m, n) /\ calls[m].site = "comp_transition" /\ calls[m].result = "ok"

C4_BlockedTicketIsSkipped ==
  \A j \in Finished :
    ~PassedValidation(j) =>
      /\ At(j, "blocked_transition") # {}
      /\ \E n \in At(j, "blocked_comment") :
           calls[n].comment.text =
             "Status transitioned from Ready for Engineering to In Review because - "
               \o Join(validateHardRules(issues[j]).blockers, "; ")
      /\ Entry(j).outcome = "validation_failed_moved_to_in_review"
      /\ \A n \in CallsOf(j) : calls[n].site \notin PipelineSites

(***************************************************************************)
(* C4, amended: for a ticket that fails validation the scanner invokes the *)
(* in-review transition and, when that returned, posts the comment with    *)
(* the blockers joined by "; "; it records the ticket as skipped exactly   *)
(* when both calls returned; it never invokes the in-progress transition,  *)
(* forgeProposal or brainToHandsCreatePr for it.                           *)
(***************************************************************************)
C4_BlockedTicketNeverPickedUp ==
  /\ \A j \in 1..Len(issues) :
       (\E n \in CallsOf(j) : calls[n].site \in PipelineSites) => PassedValidation(j)
  /\ \A j \in Finished :
       LET v == validateHardRules(issues[j])
       IN  v.blockers # <<>> =>
             /\ At(j, "blocked_transition") # {}
             /\ \A n \in At(j, "blocked_transition") : calls[n].arg = TRANSITION_ID_TO_IN_REVIEW
             /\ Settled(j, "blocked_transition") <=> At(j, "blocked_comment") # {}
             /\ \A n \in At(j, "blocked_comment") :
                  calls[n].comment.text =
                    "Status transitioned from Ready for Engineering to In Review because - "
                      \o Join(v.blockers, "; ")
             /\ Settled(j, "blocked_comment") <=>
                  Entry(j).outcome = "validation_failed_moved_to_in_review"
             /\ Entry(j).outcome = "validation_failed_moved_to_in_review" =>
                  Entry(j).reason = Join(v.blockers, "; ")

(* a ticket with two blockers was moved to In Review, commented and skipped *)
C4_Witness ==
  \E j \in Finished :
    /\ Len(validateHardRules(issues[j]).blockers) >= 2
    /\ Settled(j, "blocked_transition")
    /\ Settled(j, "blocked_comment")
    /\ Entry(j).outcome = "validation_failed_moved_to_in_review"

(***************************************************************************)
(* C5 as stated: a ticket that fails validation is always reported with    *)
(* the outcome validation_failed_moved_to_in_review, never failed.         *)
(***************************************************************************)
C5_BlockedTicketNeverFailed ==
  \A j \in Finished :
    ~PassedValidation(j) => Entry(j).outcome = "validation_failed_moved_to_in_review"

(***************************************************************************)
(* C5, amended: a ticket that fails validation is reported with the        *)
(* outcome validation_failed_moved_to_in_review and counted skipped,       *)
(* unless its in-review transition or its comment threw: then it is        *)
(* reported failed with the error of that call, never with its blockers.   *)
(***************************************************************************)
C5_BlockedTicketFailsOnlyWithTracker ==
  /\ results.skipped = CountOutcome("validation_failed_moved_to_in_review")
  /\ \A j \in Finished :
       ~PassedValidation(j) =>
         LET threw == Threw(j, "blocked_transition") \/ Threw(j, "blocked_comment")
         IN  /\ ~threw => Entry(j).outcome = "validation_failed_moved_to_in_review"
             /\ threw => /\ Entry(j).outcome = "failed"
                         /\ Entry(j).error = FirstError(j)
                         /\ Entry(j).error \in { MissingTransitionId,
                                JiraFailed("POST", "/rest/api/3/issue/" \o issues[j].key \o "/transitions",
                                           JiraErrorStatus),
                                JiraFailed("POST", "/rest/api/3/issue/" \o issues[j].key \o "/comment",
                                           JiraErrorStatus) }

(* a ticket that fails validation is reported failed: no in-review transition id is set *)
C5_Witness ==
  \E j \in Finished :
    /\ ~PassedValidation(j)
    /\ \E n \in At(j, "blocked_transition") : calls[n].result = "not_sent"
    /\ Entry(j).outcome = "failed"
    /\ Entry(j).error = MissingTransitionId

(***************************************************************************)
(* C6: in a pass a failure while one ticket is processed does not end the  *)
(* pass: runJiraScanner throws only before its loop, every ticket the      *)
(* search returned gets exactly one entry in results.items, in search      *)
(* order, and the report is returned with an entry for each of them.       *)
(***************************************************************************)
C6_EveryTicketOneEntryInOrder ==
  /\ Len(results.items) <= Len(issues)
  /\ \A j \in 1..Len(results.items) : j <= Len(issues) => results.items[j].jiraKey = issues[j].key
  /\ pc = "threw" => issues = <<>> /\ \A n \in 1..Len(calls) : calls[n].pass # pass
  /\ pc = "returned" => Len(results.items) = Len(issues)
  /\ pc \notin {"idle", "threw", "returned"} => Len(results.items) = idx - 1
  /\ results.scanned = Len(issues)

(* a batch pass returned its report after its first ticket failed, compensation included *)
C6_Witness ==
  /\ pc = "returned"
  /\ results.mode = "scan_ready_status"
  /\ Len(results.items) = Cardinality(Keys)
  /\ results.items[1].outcome = "failed"
  /\ Threw(1, "comp_transition")
  /\ results.items[2].outcome # "failed"

(***************************************************************************)
(* C7: when the compensating transition or the compensating comment of a   *)
(* ticket throws, that failure is swallowed: the ticket's entry is         *)
(* { jiraKey, outcome: "failed", error } with the message of the original  *)
(* failure, the first call that threw for the ticket.                      *)
(***************************************************************************)
C7_SecondaryFailureSwallowed ==
  \A j \in Finished :
    (Threw(j, "comp_transition") \/ Threw(j, "comp_comment")) =>
      /\ DOMAIN Entry(j) = {"jiraKey", "outcome", "error"}
      /\ Entry(j).jiraKey = issues[j].key
      /\ Entry(j).outcome = "failed"
      /\ Entry(j).error = FirstError(j)

(* the compensation of a failed ticket threw another Error than the one reported *)
C7_Witness ==
  \E j \in Finished :
    \E n \in At(j, "comp_transition") \cup At(j, "comp_comment") :
      /\ calls[n].result # "ok"
      /\ calls[n].error # Entry(j).error
      /\ Entry(j).outcome = "failed"

C9_ProcessedTicketEndsInReview ==
  \A j \in Finished :
    /\ Entry(j).outcome \in {"pr_created_moved_to_in_review",
                             "validation_failed_moved_to_in_review"} =>
         StatusOf(j) = STATUS_IN_REVIEW
    /\ (Entry(j).outcome = "failed" /\ Settled(j, "comp_transition")) =>
         StatusOf(j) = STATUS_IN_REVIEW
    /\ StatusOf(j) # STATUS_IN_REVIEW =>
         Entry(j).outcome = "failed" /\ Threw(j, "comp_transition")

(* a picked-up ticket failed and its compensation brought it to In Review, *)
(* next to a ticket validation blocked                                    *)
C9_Witness ==
  \E j \in Finished, i \in Finished :
    /\ Settled(j, "pickup_transition")
    /\ Entry(j).outcome = "failed"
    /\ Settled(j, "comp_transition")
    /\ StatusOf(j) = STATUS_IN_REVIEW
    /\ Entry(i).outcome = "validation_failed_moved_to_in_review"
    /\ StatusOf(i) = STATUS_IN_REVIEW

(***************************************************************************)
(* C10: across passes over one fingerprint the scanner works on the ticket *)
(* once: a later pass over a fingerprint an earlier pass handled sends    *)
(* the tracker no second transition request for the ticket (and so        *)
(* reaches no second brainToHandsCreatePr call).                          *)
(***************************************************************************)
C10_FingerprintHandledOnce ==
  \A m \in 1..Len(calls), n \in 1..Len(calls) :
    ( /\ calls[m].fingerprint = calls[n].fingerprint
      /\ calls[m].fingerprint # NoFingerprint.full
      /\ calls[m].call = "jiraTransition" /\ calls[m].result # "not_sent"
      /\ calls[n].call = "jiraTransition" /\ calls[n].result # "not_sent" ) =>
      calls[m].pass = calls[n].pass

(***************************************************************************)
(* C11: when the Proposal Generator returns a proposal that is not of kind *)
(* github_pr, has no files or has no repo, for a ticket that passed        *)
(* validation, the scanner treats the returned proposal as a failure of    *)
(* the ticket: the request to POST /api/github/pr is not sent, the         *)
(* ticket's outcome is failed and the compensating transition is           *)
(* attempted.                                                              *)
(***************************************************************************)
C11_MalformedProposalIsRejected ==
  \A j \in Finished :
    ( /\ PassedValidation(j)
      /\ \E n \in At(j, "forge") : calls[n].answers.llm = "malformed" )
    => /\ \A n \in At(j, "forge") : calls[n].result = "ok"
       /\ \A n \in At(j, "create_pr") : calls[n].result = "not_sent"
       /\ Entry(j).outcome = "failed"
       /\ At(j, "comp_transition") # {}

Applied(fn) == app.fn = fn /\ app.result # <<>>

(***************************************************************************)
(* C13: two snapshots of one ticket whose acceptance criteria and          *)
(* description differ only in whitespace or line endings (CRLF, LF or lone *)
(* CR, runs of spaces and tabs, spaces next to a line break, the number of *)
(* blank lines, leading and trailing whitespace), with the same key,       *)
(* timestamp and status, have the same fingerprint.                        *)
(***************************************************************************)
C13_WhitespaceDoesNotChangeFingerprint ==
  (Applied("buildFingerprint") /\ app.args.how \in WhitespaceVariations)
    => app.result[1] = app.result[2]

(***************************************************************************)
(* C14: two snapshots of one ticket that differ only in the last-updated   *)
(* timestamp are hashed from different strings and have different          *)
(* fingerprints.                                                           *)
(***************************************************************************)
C14_UpdateChangesFingerprint ==
  (Applied("buildFingerprint") /\ app.args.how = "updated")
    => /\ FingerprintPayload(app.args.a) # FingerprintPayload(app.args.b)
       /\ app.result[1].full # app.result[2].full
       /\ app.result[1].short # app.result[2].short

C14_Witness ==
  /\ Applied("buildFingerprint")
  /\ app.args.how = "updated"
  /\ app.args.a.description = app.args.b.description
  /\ app.args.a.acceptanceCriteria = app.args.b.acceptanceCriteria
  /\ app.result[1].full # app.result[2].full

(* what validateHardRules was applied to, as the rules read it *)
AppliedSummary == normalizeText(app.args.fields.summary)
AppliedDescription == normalizeText(extractDescriptionText(app.args.fields))
AppliedCriteria == normalizeText(extractAcceptanceCriteria(app.args.fields))

(* the labels of Snapshots that are a blocking label when case is ignored *)
BlockingIgnoringCase == BLOCKING_LABELS \cup {"Blocked"}

(* the blocking labels the applied issue carries, in lower case *)
AppliedBlockingLabels ==
  {toLowerCase(l) : l \in Range(app.args.fields.labels) \cap BlockingIgnoringCase}

(* the number of hard rules the applied issue violates *)
ViolatedRules ==
  (IF app.args.fields.status # STATUS_READY THEN 1 ELSE 0)
  + (IF TextLength(AppliedSummary) < MinSummaryLength THEN 1 ELSE 0)
  + (IF AppliedDescription = <<>> THEN 1 ELSE 0)
  + (IF AppliedCriteria = <<>> THEN 1 ELSE 0)
  + Cardinality(AppliedBlockingLabels)
  + (IF DEFAULT_TARGET_REPO = "" THEN 1 ELSE 0)

(***************************************************************************)
(* C15: validateHardRules does not stop at the first violated rule: it     *)
(* reports one blocker per violated rule.  An issue without acceptance     *)
(* criteria that carries a blocking label gets both blockers, and an issue *)
(* with a too-short summary and no description gets both "Missing or       *)
(* too-short Summary" and "Missing Description" in its reason.             *)
(***************************************************************************)
C15_BlockersAccumulate ==
  Applied("validateHardRules") =>
    LET blockers == app.result[1].blockers
    IN  /\ Len(blockers) = ViolatedRules
        /\ (AppliedCriteria = <<>> /\ AppliedBlockingLabels # {})
             => /\ "Missing Acceptance Criteria" \in Range(blockers)
                /\ \A l \in AppliedBlockingLabels : ("Blocking label: " \o l) \in Range(blockers)
        /\ (TextLength(AppliedSummary) < MinSummaryLength /\ AppliedDescription = <<>>)
             => /\ "Missing or too-short Summary" \in Range(blockers)
                /\ "Missing Description" \in Range(blockers)
                /\ \E i \in 1..(Len(blockers) - 1) :
                     /\ blockers[i] = "Missing or too-short Summary"
                     /\ blockers[i + 1] = "Missing Description"

C15_Witness ==
  /\ Applied("validateHardRules")
  /\ AppliedCriteria = <<>>
  /\ AppliedBlockingLabels # {}
  /\ TextLength(AppliedSummary) < MinSummaryLength
  /\ AppliedDescription = <<>>
  /\ Len(app.result[1].blockers) >= 4

(* the rule a blocker message belongs to, in the order of the rules *)
RuleOf(b) ==
  CASE b = "Missing or too-short Summary" -> 2
    [] b = "Missing Description" -> 3
    [] b = "Missing Acceptance Criteria" -> 4
    [] b \in {"Blocking label: " \o l : l \in BLOCKING_LABELS} -> 5
    [] b = "Missing target repo (DEFAULT_TARGET_REPO)" -> 6
    [] OTHER -> 1

(***************************************************************************)
(* C16: validateHardRules is a function of the issue.  ok holds exactly    *)
(* when the status is Ready, the normalized summary has at least 8         *)
(* characters, the description and the extracted acceptance criteria are   *)
(* non-empty, no label is a blocking label (ignoring case) and a target    *)
(* repository is resolvable.  The blockers are listed in the order status, *)
(* summary, description, acceptance criteria, labels, repository, and a    *)
(* second call on the same issue returns the same result.                  *)
(***************************************************************************)
C16_ValidationIsAFunctionOfTheIssue ==
  Applied("validateHardRules") =>
    LET v == app.result[1]
    IN  /\ v.ok <=> /\ app.args.fields.status = STATUS_READY
                    /\ TextLength(AppliedSummary) >= MinSummaryLength
                    /\ AppliedDescription # <<>>
                    /\ AppliedCriteria # <<>>
                    /\ Range(app.args.fields.labels) \cap BlockingIgnoringCase = {}
                    /\ DEFAULT_TARGET_REPO # ""
        /\ v.ok <=> v.blockers = <<>>
        /\ \A i \in 1..(Len(v.blockers) - 1) :
             \/ RuleOf(v.blockers[i]) < RuleOf(v.blockers[i + 1])
             \/ RuleOf(v.blockers[i]) = 5 /\ RuleOf(v.blockers[i + 1]) = 5
        /\ \A i \in 1..Len(v.blockers) :
             RuleOf(v.blockers[i]) = 1 => app.args.fields.status # STATUS_READY
        /\ Len(app.result) = 2 => app.result[2] = app.result[1]

C16_Witness ==
  /\ app.fn = "validateHardRules"
  /\ Len(app.result) = 2
  /\ app.result[1].ok
  /\ app.result[2].ok
  /\ app.args.fields.labels # <<>>

(***************************************************************************)
(* C17: when DEFAULT_TARGET_REPO is not set, validateHardRules reports the *)
(* missing target repository as a blocker, and the ticket is neither moved *)
(* to In Progress nor sent to the Proposal Generator.                      *)
(***************************************************************************)
C17_UnsetTargetRepoIsABlocker ==
  \A j \in Finished :
    env.DEFAULT_TARGET_REPO = "" =>
      /\ "Missing target repo (DEFAULT_TARGET_REPO)"
           \in Range(validateHardRules(issues[j]).blockers)
      /\ At(j, "pickup_transition") = {}
      /\ At(j, "forge") = {}

(* FORGE_OUTPUT_SCHEMA: the proposal a response must be *)
ConformsToSchema(p) ==
  /\ DOMAIN p = {"kind", "summary", "payload", "quality"}
  /\ p.kind = "github_pr"
  /\ DOMAIN p.payload = {"repo", "prTitle", "prBody", "commitMessage", "branchName", "files"}
  /\ Len(p.payload.files) >= 1
  /\ \A i \in 1..Len(p.payload.files) : DOMAIN p.payload.files[i] = {"path", "content"}
  /\ DOMAIN p.quality = {"assumptions", "risks", "testPlan", "rollbackPlan"}

(***************************************************************************)
(* C20: forgeProposal returns a value only if the value conforms to the    *)
(* proposal schema (kind github_pr, a payload with repo, prTitle, prBody,  *)
(* commitMessage, branchName and at least one file, and the quality        *)
(* lists); it throws when the model's output is empty, is not JSON, or is  *)
(* JSON that violates the schema.                                          *)
(***************************************************************************)
C20_ForgeReturnsOnlyConformingProposals ==
  Applied("forgeProposal") =>
    LET r == app.result[1]
        llm == app.args.llm
    IN  /\ ~r.threw => ConformsToSchema(r.value)
        /\ llm.type \in {"empty", "text"} => r.threw
        /\ (llm.type = "json" /\ ~ConformsToSchema(llm.json)) => r.threw

(* the invocation reached the requests to GitHub *)
Invoked == gh.pc # "" /\ gh.head # ""
FilesOfRequest == gh.req.body.files

(***************************************************************************)
(* C18: one invocation of POST /api/github/pr never creates more than one  *)
(* commit, whatever the number of files, and an invocation that answers    *)
(* 200 has created one blob per file, one tree holding every file, one     *)
(* commit over that tree, and has opened one pull request.                 *)
(***************************************************************************)
C18_OneCommitPerInvocation ==
  Invoked =>
    /\ Len(gh.repo.commits) <= 1
    /\ Len(gh.repo.trees) <= 1
    /\ Len(gh.repo.pulls) <= 1
    /\ Len(gh.repo.blobs) <= Len(FilesOfRequest)
    /\ gh.res.status = 200 =>
         /\ Len(gh.repo.blobs) = Len(FilesOfRequest)
         /\ Len(gh.repo.trees) = 1
         /\ Len(gh.repo.commits) = 1
         /\ Len(gh.repo.pulls) = 1
         /\ Len(gh.repo.trees[1].tree) = Len(FilesOfRequest)
         /\ \A k \in 1..Len(FilesOfRequest) :
              /\ gh.repo.trees[1].tree[k].path = FilesOfRequest[k].path
              /\ gh.repo.trees[1].tree[k].sha = gh.repo.blobs[k].sha
              /\ gh.repo.blobs[k].content = FilesOfRequest[k].content
         /\ gh.repo.commits[1].tree = gh.repo.trees[1].sha

C18_Witness ==
  /\ Invoked
  /\ gh.res.status = 200
  /\ Len(FilesOfRequest) = MaxFiles
  /\ Len(gh.repo.blobs) = MaxFiles
  /\ Len(gh.repo.commits) = 1

(* the requests of an invocation with n files, in the order of the handler *)
RequestOrder(n) ==
  <<"get_base_ref", "create_ref", "get_base_commit">>
    \o [k \in 1..n |-> "blobs"]
    \o <<"tree", "commit", "move_ref", "pulls">>

Succeeded(step) == \E k \in 1..Len(gh.log) : gh.log[k].name = step /\ gh.log[k].ok

(***************************************************************************)
(* C19: the requests of one invocation are sent in the order: base branch  *)
(* head, new ref at that SHA, blobs, tree on the base tree, commit with    *)
(* the base commit as parent, new ref moved to the commit without force,   *)
(* pull request from the new ref to the base branch.  Each is sent only    *)
(* after the previous one succeeded; a request that fails is the last one  *)
(* and the invocation answers 500; the pull request is requested only when *)
(* the new ref points at the new commit.                                   *)
(***************************************************************************)
C19_StepsInOrderAndStopAtFailure ==
  Invoked =>
    LET order == RequestOrder(Len(FilesOfRequest))
    IN  /\ Len(gh.log) <= Len(order)
        /\ \A k \in 1..Len(gh.log) : gh.log[k].name = order[k]
        /\ \A k \in 1..(Len(gh.log) - 1) : gh.log[k].ok
        /\ (gh.log # <<>> /\ ~gh.log[Len(gh.log)].ok) => (gh.pc = "done" /\ gh.res.status = 500)
        /\ (Succeeded("create_ref") /\ ~Succeeded("move_ref")) =>
             gh.repo.refs[gh.head] = gh.repo.refs[GH_DEFAULT_BRANCH]
        /\ \A k \in 1..Len(gh.repo.trees) : gh.repo.trees[k].base_tree = BaseTreeSha
        /\ \A k \in 1..Len(gh.repo.commits) :
             gh.repo.commits[k].parents = <<gh.repo.refs[GH_DEFAULT_BRANCH]>>
        /\ ~MoveRefForce
        /\ (\E k \in 1..Len(gh.log) : gh.log[k].name = "pulls") =>
             /\ gh.newCommit # ""
             /\ gh.repo.refs[gh.head] = gh.newCommit
        /\ \A k \in 1..Len(gh.repo.pulls) :
             /\ gh.repo.pulls[k].head = gh.head
             /\ gh.repo.pulls[k].base = GH_DEFAULT_BRANCH
             /\ gh.repo.pulls[k].headSha = gh.newCommit
        /\ gh.res.status = 200 <=> Succeeded("pulls")

C19_Witness ==
  /\ Invoked
  /\ Succeeded("pulls")
  /\ gh.head = "feature"
  /\ Len(gh.log) = Len(RequestOrder(2))
  /\ gh.repo.refs[gh.head] = gh.newCommit
  /\ gh.repo.commits[1].parents = <<BaseCommitSha>>

(* the inserts and updates of orky_runs so far *)
Writes(op) == { n \in 1..Len(db.log) : db.log[n].op = op }
WritesBy(r) == { n \in 1..Len(db.log) : db.log[n].by = r }
Answered(r) == db.reqs[r].pc = "done"
RequestsTo(route) == { r \in 1..Len(db.reqs) : db.reqs[r].route = route }

(***************************************************************************)
(* C21: CANCELLED is terminal.  Once a cancel request has set a run's      *)
(* cursor to CANCELLED/CANCELLED, no start or cancel request, later or     *)
(* interleaved with it, moves the cursor out of CANCELLED, and the cursor  *)
(* never moves back to RECEIVED.                                           *)
(***************************************************************************)
C21_CancelledIsTerminal ==
  \A n \in Writes("update") :
    /\ db.log[n].before.cursor_state = "CANCELLED" => db.log[n].after.cursor_state = "CANCELLED"
    /\ db.log[n].after.cursor_state = "RECEIVED" => db.log[n].before.cursor_state = "RECEIVED"

(* the worker that serves the Control API *)
ThisWorker == "control-api"

(***************************************************************************)
(* C22: a worker mutates a run only while it holds an unexpired lock for   *)
(* it: every cursor update by setRunCursor is of a run whose locked_by     *)
(* names the worker that makes the update.                                 *)
(***************************************************************************)
C22_MutationOnlyUnderLock ==
  \A n \in Writes("update") :
    /\ db.log[n].before.locked_by = ThisWorker
    /\ db.log[n].before.lock_expires_at # NULL

(***************************************************************************)
(* C23: after any sequence of POST /runs requests, concurrent ones for the *)
(* same ticket key included, no two runs have the same ticket key, and a   *)
(* creation attempt for a key that already has a run fails and adds no     *)
(* row.                                                                    *)
(***************************************************************************)
C23_OneRunPerTicketKey ==
  /\ \A i, j \in 1..Len(db.runs) : db.runs[i].jira_key = db.runs[j].jira_key => i = j
  /\ \A r \in RequestsTo("create") :
       (Answered(r) /\ db.reqs[r].res.body = [error |-> DuplicateKeyError])
         => /\ db.reqs[r].res.status = 500
            /\ WritesBy(r) = {}
            /\ \E i \in 1..Len(db.runs) : db.runs[i].jira_key = TrimKey(db.reqs[r].jira_key)
  /\ Len(db.runs) = Cardinality(Writes("insert"))

C23_Witness ==
  \E r1, r2 \in RequestsTo("create") :
    /\ r1 # r2
    /\ db.reqs[r1].res.status = 201
    /\ Answered(r2)
    /\ db.reqs[r2].res.body = [error |-> DuplicateKeyError]
    /\ db.reqs[r1].jira_key # db.reqs[r2].jira_key
    /\ Len(db.runs) = 1

(***************************************************************************)
(* C24: the response to POST /runs for a ticket key that already has an    *)
(* active run differs from the response to a generic persistence error in  *)
(* its status or in a code that names the conflict, so that the caller can *)
(* treat it as "already in flight".                                        *)
(***************************************************************************)
C24_DuplicateFailsDistinctly ==
  \A r1, r2 \in RequestsTo("create") :
    ( /\ Answered(r1)
      /\ Answered(r2)
      /\ db.reqs[r1].res.body = [error |-> DuplicateKeyError]
      /\ db.reqs[r2].res.body = [error |-> PersistenceError] )
    => \/ db.reqs[r1].res.status # db.reqs[r2].res.status
       \/ "code" \in DOMAIN db.reqs[r1].res.body

(***************************************************************************)
(* C25: a run is created with cursor RECEIVED / INTAKE_START and attempt   *)
(* 0, and POST /runs with an empty or whitespace-only jira_key is answered *)
(* 400 and creates no run.                                                 *)
(***************************************************************************)
C25_RunCreatedInInitialCursor ==
  /\ \A n \in Writes("insert") :
       /\ db.log[n].after.cursor_state = "RECEIVED"
       /\ db.log[n].after.cursor_step = "INTAKE_START"
       /\ db.log[n].after.cursor_attempt = 0
       /\ db.log[n].after.jira_key # <<>>
       /\ Range(db.log[n].after.jira_key) \cap Whitespace = {}
       /\ db.reqs[db.log[n].by].res = [status |-> 201, body |-> db.log[n].after]
  /\ \A r \in RequestsTo("create") :
       (Answered(r) /\ Range(db.reqs[r].jira_key) \subseteq Whitespace)
         => /\ db.reqs[r].res = [status |-> 400, body |-> [error |-> "jira_key required"]]
            /\ WritesBy(r) = {}

C25_Witness ==
  \E r1, r2 \in RequestsTo("create") :
    /\ db.reqs[r1].res.status = 201
    /\ db.reqs[r1].res.body.cursor_state = "RECEIVED"
    /\ db.reqs[r1].jira_key = <<SP, "ORKY-1", LF>>
    /\ db.reqs[r2].res.status = 400
    /\ db.reqs[r2].jira_key = <<SP, TAB>>

(***************************************************************************)
(* C26: every cursor update made by a start or a cancel request carries    *)
(* the run's attempt counter forward unchanged, and a start or cancel      *)
(* request for a run id that does not exist changes no run.                *)
(***************************************************************************)
C26_AttemptCarriedForward ==
  /\ \A n \in Writes("update") :
       /\ db.log[n].after.cursor_attempt = db.log[n].before.cursor_attempt
       /\ db.log[n].after.id = db.log[n].before.id
       /\ db.log[n].after.jira_key = db.log[n].before.jira_key
  /\ \A r \in RequestsTo("start") \cup RequestsTo("cancel") :
       (Answered(r) /\ db.reqs[r].run = NoRun)
         => /\ db.reqs[r].res.status = 500
            /\ WritesBy(r) = {}

C26_Witness ==
  /\ \E n \in Writes("update") :
       /\ db.log[n].before.cursor_state = "RECEIVED"
       /\ db.log[n].after.cursor_state = "CANCELLED"
       /\ db.log[n].after.cursor_attempt = db.log[n].before.cursor_attempt
  /\ \E r \in RequestsTo("start") :
       /\ Answered(r)
       /\ db.reqs[r].res.body = [error |-> NoRowsError]
       /\ db.reqs[r].id > Len(db.runs)

(* The rows of orky_audit_log: the table is created, and no statement of   *)
(* the scanner, the Mutator or the Control API inserts into it.            *)
orky_audit_log == <<>>

(* the calls that change the tracker or the repository and were sent *)
ExternalMutations ==
  { n \in 1..Len(calls) :
      /\ calls[n].site \in TransitionSites \cup CommentSites \cup {"create_pr"}
      /\ calls[n].result # "not_sent" }

(***************************************************************************)
(* C27: every external mutation of the orchestrator (tracker transition,   *)
(* tracker comment, pull-request creation) has an audit pair: an INTENT    *)
(* row and a RESULT row of orky_audit_log for the ticket, with the same    *)
(* correlation id.                                                         *)
(***************************************************************************)
C27_EveryMutationHasAnAuditPair ==
  \A n \in ExternalMutations :
    \E i, r \in 1..Len(orky_audit_log) :
      /\ orky_audit_log[i].phase = "INTENT"
      /\ orky_audit_log[r].phase = "RESULT"
      /\ i < r
      /\ orky_audit_log[i].correlation_id = orky_audit_log[r].correlation_id
      /\ orky_audit_log[i].jira_key = calls[n].key
      /\ orky_audit_log[r].jira_key = calls[n].key

(***************************************************************************)
(* C30: the compensating in-review transition with the "Scanner execution  *)
(* failed" comment is attempted only for a ticket that has been moved to   *)
(* In Progress: not when the in-progress transition itself failed, and not *)
(* for a failure inside the validation-failed branch.                      *)
(***************************************************************************)
C30_CompensationOnlyAfterPickUp ==
  \A j \in 1..Len(issues) :
    (At(j, "comp_transition") # {} \/ At(j, "comp_comment") # {})
      => Settled(j, "pickup_transition")

(***************************************************************************)
(* The intake's report and the requests it sent to Jira.                   *)
(***************************************************************************)
Reported == intake.pc = "done" /\ intake.res.status = 200
InLoop == intake.pc # "" /\ intake.i >= 1
EntriesOf(n) == {x \in DOMAIN intake.items : intake.items[x].index = n}
StoriesSentFor(n) ==
  {x \in DOMAIN intake.sent : intake.sent[x].issuetype = "Story" /\ intake.sent[x].epic = n}

(* C28: the intake batch continues on per-record errors: once the loop     *)
(* over the epics has begun the request ends with the report, never with   *)
(* an error; every requested epic has exactly one entry in the report;     *)
(* epicsCreated + epicsFailed = epicsRequested; and in POST /api/intake    *)
(* storiesCreated + storiesFailed = storiesRequested, the stories of an    *)
(* epic that was not created (dry runs aside) being all failed and none of *)
(* them sent.                                                              *)
C28_BatchContinuesAndTotalsAddUp ==
  /\ (InLoop /\ intake.pc = "done") => Reported
  /\ Reported =>
       /\ \A n \in 1..Len(EpicsOfRequest) : Cardinality(EntriesOf(n)) = 1
       /\ intake.totals.epicsCreated + intake.totals.epicsFailed = Len(EpicsOfRequest)
       /\ intake.handler = "intake" =>
            /\ intake.totals.storiesCreated + intake.totals.storiesFailed
                 = intake.totals.storiesRequested
            /\ \A x \in DOMAIN intake.items :
                 (~intake.items[x].ok /\ ~intake.req.body.dryRun) =>
                   /\ \A y \in DOMAIN intake.items[x].stories : ~intake.items[x].stories[y].ok
                   /\ StoriesSentFor(intake.items[x].index) = {}

ClaimedProtectedKeys == {"project", "issuetype", "summary", "description", "parent"}

(* the issue's value of each key of ks is the one the handler computed *)
Kept(m, ks) ==
  \A k \in ks : IF k \in DOMAIN m.computed
                THEN k \in DOMAIN m.fields /\ m.fields[k] = m.computed[k]
                ELSE k \notin DOMAIN m.fields

(* every key of the caller's fields object outside ks is in the issue *)
Copied(m, ks) ==
  m.extra.t = "object" =>
    \A k \in DOMAIN m.extra.v \ ks : k \in DOMAIN m.fields /\ m.fields[k] = m.extra.v[k]

(* C29 as stated: in every issue sent to Jira, project, issuetype,         *)
(* summary, description and parent are the handler's values, and every     *)
(* other key of the caller's fields is copied into the request.            *)
C29_OnlyTheFiveKeysAreProtected ==
  \A x \in DOMAIN intake.sent :
    /\ Kept(intake.sent[x], ClaimedProtectedKeys)
    /\ Copied(intake.sent[x], ClaimedProtectedKeys)

(* C29, amended: in every issue sent to Jira, project, issuetype, summary, *)
(* description and parent are the handler's values; POST /api/intake/batch *)
(* copies every other key of the caller's fields, and POST /api/intake     *)
(* copies every other key except reporter, which it also keeps to the      *)
(* handler's value.                                                        *)
C29_ProtectedKeysAreNotOverridden ==
  \A x \in DOMAIN intake.sent :
    /\ Kept(intake.sent[x], ClaimedProtectedKeys)
    /\ intake.handler = "batch" => Copied(intake.sent[x], ClaimedProtectedKeys)
    /\ intake.handler = "intake" =>
         /\ Kept(intake.sent[x], {"reporter"})
         /\ Copied(intake.sent[x], ClaimedProtectedKeys \cup {"reporter"})

C29_Witness ==
  /\ Reported
  /\ \E x, y \in DOMAIN intake.sent :
       /\ intake.sent[x].issuetype = "Story"
       /\ intake.sent[x].extra = Obj(EvilFields)
       /\ intake.sent[x].fields["labels"] = <<"x">>
       /\ intake.sent[y].extra.t = "object"
       /\ "reporter" \in DOMAIN intake.sent[y].extra.v
       /\ "priority" \in DOMAIN intake.sent[y].fields

(***************************************************************************)
(* C31: report arithmetic.  At every iteration boundary of runJiraScanner  *)
(* (the top of the loop, and the return) processed + skipped + failed is   *)
(* the number of entries in items, which is the number of tickets gone     *)
(* through; each counter is the number of entries with its outcome, so     *)
(* every ticket has incremented exactly one of them; the returned report   *)
(* has scanned = processed + skipped + failed = Len(items); and mode is    *)
(* single_issue exactly when a ticket key was given.                       *)
(***************************************************************************)
AtIterationBoundary == pc \in {"loop", "returned"}

C31_ReportArithmetic ==
  AtIterationBoundary =>
    /\ results.processed + results.skipped + results.failed = Len(results.items)
    /\ Len(results.items) = idx - 1
    /\ results.processed = CountOutcome("pr_created_moved_to_in_review")
    /\ results.skipped = CountOutcome("validation_failed_moved_to_in_review")
    /\ results.failed = CountOutcome("failed")
    /\ pc = "returned" =>
         /\ results.scanned = results.processed + results.skipped + results.failed
         /\ results.scanned = Len(results.items)
    /\ results.mode = "single_issue" <=> jiraKey # NoKey
    /\ results.mode = "scan_ready_status" <=> jiraKey = NoKey

C31_Witness ==
  /\ pc = "returned"
  /\ results.mode = "scan_ready_status"
  /\ results.scanned = 2
  /\ results.skipped = 1
  /\ results.failed = 1

(***************************************************************************)
(* The status a ticket of the current pass had in the fetched snapshot.    *)
(***************************************************************************)
SnapshotStatus(j) == issues[j].fields.status
Fetched == 1..Len(issues)

(* C32 as stated: a ticket fetched in a status other than "Ready for       *)
(* Engineering" is neither transitioned nor commented on.                  *)
C32_OnlyReadyTicketsAreTouched ==
  \A j \in Fetched :
    SnapshotStatus(j) # STATUS_READY =>
      \A n \in CallsOf(j) : calls[n].call \notin TrackerCalls

(* C32, amended: the "in progress" transition, the Proposal Generator and  *)
(* the Repository Mutator are requested only for a ticket whose snapshot   *)
(* status is "Ready for Engineering".  A ticket fetched in another status  *)
(* fails validation: the first request for it is the "in review"           *)
(* transition, and the only requests for it are "in review" transitions    *)
(* and the comments that follow them.                                      *)
C32_PickUpOnlyReadyTickets ==
  \A j \in Fetched :
    SnapshotStatus(j) # STATUS_READY =>
      /\ \A n \in CallsOf(j) :
           /\ calls[n].site \notin PipelineSites
           /\ calls[n].site \in {"blocked_transition", "blocked_comment",
                                 "comp_transition", "comp_comment"}
           /\ calls[n].call = "jiraTransition" => calls[n].arg = TRANSITION_ID_TO_IN_REVIEW
      /\ j \in Finished => At(j, "blocked_transition") # {}

C32_Witness ==
  /\ jiraKey # NoKey
  /\ \E j \in Finished :
       /\ SnapshotStatus(j) \in {STATUS_IN_REVIEW, STATUS_IN_PROGRESS}
       /\ Settled(j, "blocked_transition")
       /\ Settled(j, "blocked_comment")
       /\ Entry(j).outcome = "validation_failed_moved_to_in_review"

(***************************************************************************)
(* C33: a ticket for which the Repository Mutator answers with a pull      *)
(* request url has, in the report, the outcome                             *)
(* pr_created_moved_to_in_review with that url, whether or not the tracker *)
(* calls that follow succeed; it is never a plain failed entry.            *)
(***************************************************************************)
MutatorAnswersWithUrl(j) ==
  \E n \in At(j, "forge") : calls[n].answers.llm = "proposal" /\ calls[n].answers.github = "url"

C33_OpenedPullRequestIsReported ==
  \A j \in Finished :
    MutatorAnswersWithUrl(j) =>
      /\ Entry(j).outcome # "failed"
      /\ Entry(j).outcome = "pr_created_moved_to_in_review"
      /\ Entry(j).prUrl # ""

(***************************************************************************)
(* C34: within one pass the "in review" transition is requested at most    *)
(* once for a ticket and at most one explanatory comment (blocked, PR      *)
(* opened, or execution failed) is posted for it; the compensating         *)
(* transition is never requested for a ticket whose "in review" transition *)
(* has already succeeded in the pass.                                      *)
(***************************************************************************)
InReviewRequests(j) ==
  { n \in CallsOf(j) : /\ calls[n].call = "jiraTransition"
                       /\ calls[n].site # "pickup_transition"
                       /\ calls[n].result # "not_sent" }
ExplanatoryComments(j) ==
  { n \in CallsOf(j) : /\ calls[n].call = "jiraAddComment"
                       /\ calls[n].site # "pickup_comment"
                       /\ calls[n].result = "ok" }

C34_InReviewRequestedOnce ==
  \A j \in Fetched :
    /\ Cardinality(InReviewRequests(j)) <= 1
    /\ Cardinality(ExplanatoryComments(j)) <= 1
    /\ (Settled(j, "blocked_transition") \/ Settled(j, "success_transition"))
         => At(j, "comp_transition") = {}

(***************************************************************************)
(* C35: normalizeText is idempotent: for every string over letters, space, *)
(* tab, carriage return and line feed, normalizing the normalized text     *)
(* gives the normalized text again.                                        *)
(***************************************************************************)
C35_NormalizeTextIsIdempotent ==
  (app.fn = "normalizeText" /\ Len(app.result) = 2) => app.result[2] = app.result[1]

(***************************************************************************)
(* C36: the string hashed by buildFingerprint determines its fields: two   *)
(* inputs whose tuples (ticket key, last-updated, status, normalized       *)
(* acceptance criteria, normalized description) differ never have the same *)
(* payload, also when the free texts hold line breaks or the text "desc=". *)
(***************************************************************************)
FingerprintTuple(in) ==
  <<in.jiraKey, in.jiraUpdatedAt, in.jiraStatus, normalizeText(in.acceptanceCriteria),
    normalizeText(in.description)>>

C36_PayloadDeterminesItsFields ==
  (Applied("buildFingerprint") /\ FingerprintTuple(app.args.a) # FingerprintTuple(app.args.b))
    => app.result[1].full.of # app.result[2].full.of

(***************************************************************************)
(* C37: when POST /api/github/pr answers 400, 401 or 405, the request has  *)
(* created no branch, blob, tree, commit or pull request on GitHub.        *)
(***************************************************************************)
C37_RejectedRequestCreatesNothing ==
  (gh.pc = "done" /\ gh.res.status \in {400, 401, 405}) =>
    /\ ~Succeeded("create_ref")
    /\ gh.repo.blobs = <<>>
    /\ gh.repo.trees = <<>>
    /\ gh.repo.commits = <<>>
    /\ gh.repo.pulls = <<>>

(***************************************************************************)
(* C38: the uniqueness of the ticket key applies to active runs only: a    *)
(* POST /runs for a ticket key whose runs are all cancelled, processed     *)
(* while the database can be reached, is answered 201 and adds a run.      *)
(***************************************************************************)
OnlyCancelledRuns(ticket) ==
  /\ \E i \in 1..Len(db.runs) : db.runs[i].jira_key = ticket
  /\ \A i \in 1..Len(db.runs) :
       db.runs[i].jira_key = ticket => db.runs[i].cursor_state = "CANCELLED"

C38_CancelledKeyCanBeRunAgain ==
  [][\A r \in 1..Len(db.reqs) :
       ( /\ db.reqs[r].route = "create"
         /\ db.reqs[r].pc = "received"
         /\ db'.reqs[r].pc = "done"
         /\ OnlyCancelledRuns(TrimKey(db.reqs[r].jira_key))
         /\ db'.reqs[r].res.body # [error |-> PersistenceError] )
       => /\ db'.reqs[r].res.status = 201
          /\ Len(db'.runs) = Len(db.runs) + 1]_vars

====
